---- MODULE Spec2Model ----
(***************************************************************************)
(* Model of argotails: the reconciliation engine that mirrors Tailscale    *)
(* devices into ArgoCD cluster secrets (and companion services), together  *)
(* with the cluster client it is wired to.                                 *)
(*                                                                         *)
(* Strings the code only copies or compares are TLA+ strings.  Strings the *)
(* code takes apart (device names, tags, filter patterns) are sequences of *)
(* one-character strings.  A "text" (a map key or value) is a tuple: one    *)
(* constant string followed by the characters the code appends to it,      *)
(* which is how the code builds its label keys and payload values.         *)
(***************************************************************************)
EXTENDS Integers, Sequences, FiniteSets, TLC

VARIABLES
    cachedReads,    \* TRUE: the client reads through the label-selected manager cache
    createService,  \* serviceConfig.CreateService
    proxyClass,     \* serviceConfig.ProxyClass
    deviceFilters,  \* --ts.device-filter patterns
    inventory,      \* the devices the Tailscale API currently lists
    secrets,        \* cluster secrets of the target namespace, by name
    services,       \* cluster services of the target namespace, by name
    last,           \* the last operation and what it returned
    remainingRetries, \* the poll loop's retry budget
    firstPassDone,  \* TRUE once the pass the manager runs at its start has run
    pollLoop,       \* "running", or how the poll loop ended
    inflight,       \* the Reconcile calls in progress, by worker
    webhookEnabled, \* --ts.webhook.enable
    cancelled,      \* TRUE once the context shared by the loops is cancelled
    firstErr,       \* the first error a loop returned to the group, "nil" if none
    managerLoop,    \* "running", or how the loop that starts the manager ended
    webhookLoop,    \* "off", "running", or how the webhook loop ended
    run,            \* "waiting", or what Run returned
    request,        \* the push request handed to the signature verification
    verdict,        \* what the verification returned for it
    built,          \* what NewRegexpTagFilter returned for the patterns
    probe,          \* the device handed to the filter and what Match returned
    input,          \* the device name handed to the name normalizer
    normal          \* what the normalizer returned for it, then for its result

vars == <<cachedReads, createService, proxyClass, deviceFilters, inventory, secrets, services,
          last, remainingRetries, firstPassDone, pollLoop, inflight,
          webhookEnabled, cancelled, firstErr, managerLoop, webhookLoop, run,
          request, verdict, built, probe, input, normal>>

config == <<cachedReads, createService, proxyClass, deviceFilters>>

\* the state of the poll loop
loop == <<remainingRetries, firstPassDone, pollLoop>>

\* the group of the loops Run starts and waits for
group == <<webhookEnabled, cancelled, firstErr, managerLoop, webhookLoop, run>>

\* the signature verification of one push request
hook == <<request, verdict>>

\* the calls of the tag filter and of the name normalizer
pure == <<built, probe, input, normal>>

----------------------------------------------------------------------------
(* Bounds *)

\* longest address list a listed device carries
MaxAddrs == 1

\* longest tag list a listed device carries
MaxTags == 2

----------------------------------------------------------------------------
(* Character sequences *)

HasPrefix(s, p) == Len(s) >= Len(p) /\ SubSeq(s, 1, Len(p)) = p

HasSuffix(s, p) == Len(s) >= Len(p) /\ SubSeq(s, Len(s) - Len(p) + 1, Len(s)) = p

TrimPrefix(s, p) == IF HasPrefix(s, p) THEN SubSeq(s, Len(p) + 1, Len(s)) ELSE s

RECURSIVE Trim(_, _)
Trim(s, cutset) ==
    IF s = <<>> THEN s
    ELSE IF s[1] \in cutset THEN Trim(Tail(s), cutset)
    ELSE IF s[Len(s)] \in cutset THEN Trim(SubSeq(s, 1, Len(s) - 1), cutset)
    ELSE s

RECURSIVE Join(_, _)
Join(ss, sep) ==
    IF ss = <<>> THEN <<>>
    ELSE IF Len(ss) = 1 THEN ss[1]
    ELSE ss[1] \o sep \o Join(Tail(ss), sep)

Min(S) == CHOOSE x \in S : \A y \in S : x <= y

Range(f) == {f[x] : x \in DOMAIN f}

\* a constant string followed by a computed character sequence
Txt(s) == <<s>>

Cat(s, cs) == <<s>> \o cs

----------------------------------------------------------------------------
(* Maps (Go map[string]string).  A stored object goes through JSON with   *)
(* omitempty, so an empty map is read back as a nil map.                  *)

EmptyMap == [x \in {} |-> x]

Put(m, key, v) == [x \in (DOMAIN m) \cup {key} |-> IF x = key THEN v ELSE m[x]]

RECURSIVE PutAll(_, _, _)
PutAll(m, keys, v) ==
    IF keys = <<>> THEN m ELSE PutAll(Put(m, keys[1], v), Tail(keys), v)

IsNilMap(m) == DOMAIN m = {}

----------------------------------------------------------------------------
(* Constants of the reconciler *)

AnnotationDeviceID == Txt("device.tailscale.com/id")

AnnotationDeviceAddress == Txt("device.tailscale.com/address")

AnnotationDeviceHostname == Txt("device.tailscale.com/hostname")

AnnotationDeviceTailnet == Txt("device.tailscale.com/tailnet")

LabelDeviceOS == Txt("device.tailscale.com/os")

LabelDeviceVersion == Txt("device.tailscale.com/version")

LabelDeviceTagsPrefix == "tag.device.tailscale.com/"

LabelSecretType == Txt("argocd.argoproj.io/secret-type")

LabelManagedBy == Txt("apps.kubernetes.io/managed-by")

AnnotationSvcHostname == Txt("tailscale.com/hostname")

AnnotationSvcProxyClass == Txt("tailscale.com/proxy-class")

TLSConfig == Txt("{\"tlsClientConfig\":{\"insecure\":false}}")

\* cli.Model.Name, the controller name
managedBy == Txt("argotails")

\* remainingRetries := 5, the failed passes the poll loop forgives in a row
RetryBudget == 5

TagColon == <<"t", "a", "g", ":">>

DotTsNet == <<".", "t", "s", ".", "n", "e", "t">>

\* rxTailnet = `\.(.+\.ts\.net$)`: the leftmost dot whose remainder is at
\* least one character followed by ".ts.net" at the end of the name; the
\* submatch is that remainder, and <<>> stands for "no match".
rxTailnet(name) ==
    LET rest(i) == SubSeq(name, i + 1, Len(name))
        hits == {i \in 1..Len(name) :
                    /\ name[i] = "."
                    /\ HasSuffix(rest(i), DotTsNet)
                    /\ Len(rest(i)) > Len(DotTsNet)}
    IN IF hits = {} THEN <<>> ELSE rest(Min(hits))

TagLabel(tag) == Cat(LabelDeviceTagsPrefix, TrimPrefix(tag, TagColon))

TagLabels(tags) == [i \in DOMAIN tags |-> TagLabel(tags[i])]

----------------------------------------------------------------------------
(* Device inventory (tailscale.Device as the reconciler reads it) *)

\* "A.b.ts.net" and "a.b-ts.net": the first has the tailnet form, the second
\* has not, and both normalize to the service name "a-b-ts-net".
NameA == <<"A", ".", "b", ".", "t", "s", ".", "n", "e", "t">>

NameB == <<"a", ".", "b", "-", "t", "s", ".", "n", "e", "t">>

Names == {NameA, NameB}

\* a name that no other name shares its service name with
NameC == <<"c", ".", "t", "s", ".", "n", "e", "t">>

AllNames == Names \cup {NameC}

TagX == <<"t", "a", "g", ":", "x">>

TagY == <<"t", "a", "g", ":", "y">>

\* the tags a device may carry, in the order the inventory lists them
AllTags == <<TagX, TagY>>

\* tag lists: the runs of AllTags at most MaxTags long
TagLists ==
    {SubSeq(AllTags, i, j) : i \in 1..Len(AllTags), j \in 0..Len(AllTags)} \cap
        UNION {[1..n -> Range(AllTags)] : n \in 0..MaxTags}

\* address lists, at most MaxAddrs long; the first address is "ip1"
AddrLists == {[i \in 1..n |-> IF i = 1 THEN "ip1" ELSE "ip2"] : n \in 0..MaxAddrs}

NodeIDOf(name) ==
    IF name = NameA THEN "node-A" ELSE IF name = NameB THEN "node-B" ELSE "node-C"

HostnameOf(name) ==
    IF name = NameA THEN "host-A" ELSE IF name = NameB THEN "host-B" ELSE "host-C"

Device(name, version, tags, addrs) ==
    [Name |-> name, NodeID |-> NodeIDOf(name), Hostname |-> HostnameOf(name),
     OS |-> "linux", ClientVersion |-> version, Tags |-> tags, Addresses |-> addrs]

\* the devices the inventory may list under a name: one per tag list, one
\* per address list, and one that runs a newer client
DevicesOf(name) ==
    IF name = NameA
    THEN {Device(name, "v1", ts, <<"ip1">>) : ts \in TagLists}
            \cup {Device(name, "v1", <<TagX>>, as) : as \in AddrLists}
            \cup {Device(name, "v2", <<TagX>>, <<"ip1">>)}
    ELSE {Device(name, "v1", <<TagX>>, <<"ip1">>)}

----------------------------------------------------------------------------
(* Tag filter *)

\* the pattern the controller is configured with: the literal "^x$"
PatternX == <<"^", "x", "$">>

\* regexp.Compile for the syntax the patterns of the model are written in:
\* letters, digits, ":" and "," standing for themselves, "." for any
\* character, "*" after an atom, "^" and "$" for the ends of the text, "\"
\* before a punctuation character, and "[" opening a class that nothing
\* closes.  An atom is what one step of the match consumes or asserts.
Atom(kind, c) == [kind |-> kind, c |-> c, star |-> FALSE]

Compiled(prog) == [err |-> "nil", prog |-> prog]

ParseError(code, expr) == [err |-> code, expr |-> expr, prog |-> <<>>]

ErrMissingBracket == "missing closing ]"

ErrTrailingBackslash == "trailing backslash at end of expression"

ErrMissingRepeatArgument == "missing argument to repetition operator"

ErrInvalidRepeatOp == "invalid nested repetition operator"

RECURSIVE Parse(_, _, _)
Parse(s, prog, repeated) ==
    IF s = <<>> THEN Compiled(prog)
    ELSE IF s[1] = "[" THEN ParseError(ErrMissingBracket, s)
    ELSE IF s[1] = "\\"
    THEN IF Len(s) = 1 THEN ParseError(ErrTrailingBackslash, <<>>)
         ELSE Parse(SubSeq(s, 3, Len(s)), Append(prog, Atom("char", s[2])), FALSE)
    ELSE IF s[1] = "*"
    THEN IF prog = <<>> THEN ParseError(ErrMissingRepeatArgument, <<"*">>)
         ELSE IF repeated THEN ParseError(ErrInvalidRepeatOp, <<"*", "*">>)
         ELSE Parse(Tail(s), [prog EXCEPT ![Len(prog)].star = TRUE], TRUE)
    ELSE Parse(Tail(s),
               Append(prog, Atom(IF s[1] = "." THEN "any"
                                 ELSE IF s[1] = "^" THEN "bol"
                                 ELSE IF s[1] = "$" THEN "eol"
                                 ELSE "char", s[1])),
               FALSE)

Compile(pattern) == Parse(pattern, <<>>, FALSE)

\* one step of the match at place i of the text: the atom holds there
Holds(atom, s, i) ==
    IF atom.kind = "bol" THEN i = 1
    ELSE IF atom.kind = "eol" THEN i = Len(s) + 1
    ELSE i <= Len(s) /\ (atom.kind = "any" \/ s[i] = atom.c)

\* the characters the atom takes when it holds
Width(atom) == IF atom.kind \in {"bol", "eol"} THEN 0 ELSE 1

\* the places a repeated atom can leave the match at, starting from place i
Repeats(atom, s, i) ==
    IF Width(atom) = 0 THEN {i}
    ELSE {j \in i..(Len(s) + 1) : \A k \in i..(j - 1) : Holds(atom, s, k)}

\* the places the text can be at once the program has matched from place i
RECURSIVE Ends(_, _, _)
Ends(prog, s, i) ==
    IF prog = <<>> THEN {i}
    ELSE IF Head(prog).star
    THEN UNION {Ends(Tail(prog), s, j) : j \in Repeats(Head(prog), s, i)}
    ELSE IF Holds(Head(prog), s, i)
    THEN Ends(Tail(prog), s, i + Width(Head(prog)))
    ELSE {}

\* the pattern as NewRegexpTagFilter puts it between the parentheses
Trimmed(pattern) == Trim(pattern, {"^", "$"})

\* NewRegexpTagFilter's regular expression tag:((p1)|(p2)...)(,|$): it
\* matches the comma-joined tags where "tag:" is followed by a match of one
\* of the trimmed patterns and then by a comma or the end.
rxTagFilterMatch(patterns, joined) ==
    \E i \in 1..Len(joined) :
        /\ i + Len(TagColon) - 1 <= Len(joined)
        /\ SubSeq(joined, i, i + Len(TagColon) - 1) = TagColon
        /\ \E p \in Range(patterns) :
              \E e \in Ends(Compile(Trimmed(p)).prog, joined, i + Len(TagColon)) :
                  e = Len(joined) + 1 \/ joined[e] = ","

\* the first pattern regexp.Compile refuses, 0 when it accepts them all
FirstInvalid(patterns) ==
    IF \A i \in DOMAIN patterns : Compile(patterns[i]).err = "nil" THEN 0
    ELSE Min({i \in DOMAIN patterns : Compile(patterns[i]).err # "nil"})

\* fmt.Errorf("invalid tag pattern: %w", err)
InvalidTagPattern(cause) == <<"invalid tag pattern", cause.err, cause.expr>>

\* FuncTagFilter(func(tailscale.Device) bool { return true })
MatchAll == [kind |-> "func", patterns |-> <<>>, rx |-> "none"]

\* (*rxTagFilter)(rx), rx being what regexp.Compile returned for the joined
\* expression with its error dropped: nil when a trimmed pattern no longer
\* parses, since the parenthesis that closes its group is then escaped or
\* the expression ends before it
rxTagFilter(patterns) ==
    [kind |-> "rx", patterns |-> patterns,
     rx |-> IF \A i \in DOMAIN patterns : Compile(Trimmed(patterns[i])).err = "nil"
            THEN "compiled" ELSE "nil"]

\* what NewRegexpTagFilter returns: the error and the filter, <<>> for nil
Built(err, filter) == [err |-> err, filter |-> filter]

\* a filter that checks its last pattern only
NewRegexpTagFilterCheckingLast(patterns) ==
    IF Len(patterns) = 0 THEN Built(<<>>, <<MatchAll>>)
    ELSE IF Compile(patterns[Len(patterns)]).err # "nil"
    THEN Built(InvalidTagPattern(Compile(patterns[Len(patterns)])), <<>>)
    ELSE Built(<<>>, <<rxTagFilter(patterns)>>)

\* a filter that matches no device when it is given no pattern
NewRegexpTagFilterMatchingNone(patterns) ==
    IF Len(patterns) = 0 THEN Built(<<>>, <<rxTagFilter(patterns)>>)
    ELSE IF FirstInvalid(patterns) # 0
    THEN Built(InvalidTagPattern(Compile(patterns[FirstInvalid(patterns)])), <<>>)
    ELSE Built(<<>>, <<rxTagFilter(patterns)>>)

NewRegexpTagFilter(patterns) ==
    IF Len(patterns) = 0 THEN Built(<<>>, <<MatchAll>>)
    ELSE IF FirstInvalid(patterns) # 0
    THEN Built(InvalidTagPattern(Compile(patterns[FirstInvalid(patterns)])), <<>>)
    ELSE Built(<<>>, <<rxTagFilter(patterns)>>)

\* TagFilter.Match: "true", "false", or "panic" when the filter is a nil
\* regular expression
FilterMatch(filter, device) ==
    IF filter.kind = "func" THEN "true"
    ELSE IF filter.rx = "nil" THEN "panic"
    ELSE IF rxTagFilterMatch(filter.patterns, Join(device.Tags, <<",">>)) THEN "true"
    ELSE "false"

\* TagFilter.Match of the filter built from the patterns
Match(patterns, device) ==
    FilterMatch(NewRegexpTagFilter(patterns).filter[1], device) = "true"

----------------------------------------------------------------------------
(* Name normalizer *)

UpperCase == <<"A", "B", "C", "D", "E", "F", "G", "H", "I", "J", "K", "L", "M",
               "N", "O", "P", "Q", "R", "S", "T", "U", "V", "W", "X", "Y", "Z">>

LowerCase == <<"a", "b", "c", "d", "e", "f", "g", "h", "i", "j", "k", "l", "m",
               "n", "o", "p", "q", "r", "s", "t", "u", "v", "w", "x", "y", "z">>

Digits == {"0", "1", "2", "3", "4", "5", "6", "7", "8", "9"}

ToLowerChar(c) ==
    IF c \in Range(UpperCase)
    THEN LowerCase[CHOOSE i \in DOMAIN UpperCase : UpperCase[i] = c]
    ELSE c

ToLower(s) == [i \in DOMAIN s |-> ToLowerChar(s[i])]

ReplaceAll(s, old, new) == [i \in DOMAIN s |-> IF s[i] = old THEN new ELSE s[i]]

RECURSIVE SelectChars(_, _)
SelectChars(s, keep) ==
    IF s = <<>> THEN <<>>
    ELSE IF s[1] \in keep THEN <<s[1]>> \o SelectChars(Tail(s), keep)
    ELSE SelectChars(Tail(s), keep)

RECURSIVE CollapseHyphens(_)
CollapseHyphens(s) ==
    IF Len(s) < 2 THEN s
    ELSE IF s[1] = "-" /\ s[2] = "-" THEN CollapseHyphens(Tail(s))
    ELSE <<s[1]>> \o CollapseHyphens(Tail(s))

RECURSIVE TrimLeftHyphens(_)
TrimLeftHyphens(s) ==
    IF s # <<>> /\ s[1] = "-" THEN TrimLeftHyphens(Tail(s)) ELSE s

RECURSIVE TrimRightHyphens(_)
TrimRightHyphens(s) ==
    IF s # <<>> /\ s[Len(s)] = "-" THEN TrimRightHyphens(SubSeq(s, 1, Len(s) - 1)) ELSE s

\* the DNS-1035 length limit
MaxNameLen == 63

FallbackName == <<"t", "a", "i", "l", "s", "c", "a", "l", "e", "-", "d", "e", "v", "i", "c", "e">>

\* a normalizer that does not look at the end of the name again once it
\* has truncated it
toDNS1035NameCutOnly(deviceName) ==
    LET lower == ToLower(deviceName)
        dashed == ReplaceAll(lower, ".", "-")
        valid == SelectChars(dashed, Range(LowerCase) \cup Digits \cup {"-"})
        single == CollapseHyphens(valid)
        trimmed == TrimRightHyphens(TrimLeftHyphens(single))
        cut == IF Len(trimmed) > MaxNameLen
               THEN SubSeq(trimmed, 1, MaxNameLen)
               ELSE trimmed
    IN IF cut = <<>> THEN FallbackName ELSE cut

\* a normalizer whose fallback is written with a dot
toDNS1035NameDottedFallback(deviceName) ==
    LET lower == ToLower(deviceName)
        dashed == ReplaceAll(lower, ".", "-")
        valid == SelectChars(dashed, Range(LowerCase) \cup Digits \cup {"-"})
        single == CollapseHyphens(valid)
        trimmed == TrimRightHyphens(TrimLeftHyphens(single))
        cut == IF Len(trimmed) > MaxNameLen
               THEN TrimRightHyphens(SubSeq(trimmed, 1, MaxNameLen))
               ELSE trimmed
    IN IF cut = <<>> THEN ReplaceAll(FallbackName, "-", ".") ELSE cut

toDNS1035Name(deviceName) ==
    LET lower == ToLower(deviceName)
        dashed == ReplaceAll(lower, ".", "-")
        valid == SelectChars(dashed, Range(LowerCase) \cup Digits \cup {"-"})
        single == CollapseHyphens(valid)
        trimmed == TrimRightHyphens(TrimLeftHyphens(single))
        cut == IF Len(trimmed) > MaxNameLen
               THEN TrimRightHyphens(SubSeq(trimmed, 1, MaxNameLen))
               ELSE trimmed
    IN IF cut = <<>> THEN FallbackName ELSE cut

\* the service names of the modelled device names, computed once
ServiceNameOf == [n \in AllNames |-> toDNS1035Name(n)]

ServiceNames == {ServiceNameOf[n] : n \in Names}

----------------------------------------------------------------------------
(* Cluster objects and the cluster client *)

Secret(annotations, labels, data, stringData) ==
    [annotations |-> annotations, labels |-> labels, data |-> data, stringData |-> stringData]

Service(annotations, labels) ==
    [annotations |-> annotations, labels |-> labels,
     spec |-> [type |-> "ExternalName", externalName |-> "ts.net",
               ports |-> <<[name |-> "https", port |-> "443/TCP", targetPort |-> "443"]>>]]

Cluster(secs, svcs) == [secrets |-> secs, services |-> svcs]

Remove(f, key) == [x \in (DOMAIN f) \ {key} |-> f[x]]

\* the ownership label this controller sets and selects on
Owned(obj) ==
    /\ LabelManagedBy \in DOMAIN obj.labels
    /\ obj.labels[LabelManagedBy] = managedBy

\* a client whose reads see every object of the namespace
VisibleWithoutCache(obj) == TRUE

\* What a read of the client can see.  The manager's client reads through a
\* cache restricted to the objects carrying the ownership label; a direct
\* client (the one the reconciler's own tests build) sees every object.
Visible(obj) == cachedReads => Owned(obj)

ksGet(objects, name, failed) ==
    IF failed THEN [err |-> "error"]
    ELSE IF name \in DOMAIN objects /\ Visible(objects[name])
         THEN [err |-> "nil", obj |-> objects[name]]
         ELSE [err |-> "NotFound"]

\* Writes go to the API server, which knows every object.
ksCreate(objects, name, obj, failed) ==
    IF failed THEN [err |-> "error", objects |-> objects]
    ELSE IF name \in DOMAIN objects THEN [err |-> "AlreadyExists", objects |-> objects]
    ELSE [err |-> "nil", objects |-> Put(objects, name, obj)]

ksUpdate(objects, name, obj, failed) ==
    IF failed THEN [err |-> "error", objects |-> objects]
    ELSE IF name \notin DOMAIN objects THEN [err |-> "NotFound", objects |-> objects]
    ELSE [err |-> "nil", objects |-> Put(objects, name, obj)]

ksDelete(objects, name, failed) ==
    IF failed THEN [err |-> "error", objects |-> objects]
    ELSE IF name \notin DOMAIN objects THEN [err |-> "NotFound", objects |-> objects]
    ELSE [err |-> "nil", objects |-> Remove(objects, name)]

----------------------------------------------------------------------------
(* Reconciler: secrets *)

\* what a step hands on: the cluster after its write w to the secrets (or to
\* the services), the error of the write, and the calls it made
SecretsWritten(cl, w, calls) ==
    [cl |-> Cluster(w.objects, cl.services), err |-> w.err, calls |-> calls]

ServicesWritten(cl, w, calls) ==
    [cl |-> Cluster(cl.secrets, w.objects), err |-> w.err, calls |-> calls]

\* a step that ends before it writes
Unwritten(cl, err, calls) == [cl |-> cl, err |-> err, calls |-> calls]

StringDataOf(device) ==
    (Txt("name") :> Cat("", device.Name))
        @@ (Txt("server") :> Cat("https://", device.Name))
        @@ (Txt("config") :> TLSConfig)

\* secret.Annotations[AnnotationDeviceTailnet] = tailnet, if the name has one
WithTailnet(annotations, tailnet) ==
    IF tailnet # <<>>
    THEN Put(annotations, AnnotationDeviceTailnet, Cat("", tailnet))
    ELSE annotations

CreateDeviceSecret(cl, name, device, fp) ==
    IF Len(device.Addresses) = 0
    THEN Unwritten(cl, "panic", {})
    ELSE
        LET annotations ==
                WithTailnet((AnnotationDeviceID :> Txt(device.NodeID))
                                @@ (AnnotationDeviceAddress :> Txt(device.Addresses[1]))
                                @@ (AnnotationDeviceHostname :> Txt(device.Hostname)),
                            rxTailnet(device.Name))
            labels0 ==
                (LabelSecretType :> Txt("cluster"))
                    @@ (LabelManagedBy :> managedBy)
                    @@ (LabelDeviceOS :> Txt(device.OS))
                    @@ (LabelDeviceVersion :> Txt(device.ClientVersion))
            labels == PutAll(labels0, TagLabels(device.Tags), Txt(""))
            secret == Secret(annotations, labels, EmptyMap, StringDataOf(device))
        IN SecretsWritten(cl, ksCreate(cl.secrets, name, secret, fp = "create"),
                          {"create"})

\* the annotations and labels of the stored object with the device's merged in
MergedAnnotations(obj, device) ==
    WithTailnet(Put(Put(Put(obj.annotations,
                    AnnotationDeviceID, Txt(device.NodeID)),
                    AnnotationDeviceHostname, Txt(device.Hostname)),
                    AnnotationDeviceAddress, Txt(device.Addresses[1])),
                rxTailnet(device.Name))

MergedLabels(obj, device) ==
    PutAll(Put(Put(Put(Put(obj.labels,
                   LabelSecretType, Txt("cluster")),
                   LabelManagedBy, managedBy),
                   LabelDeviceOS, Txt(device.OS)),
                   LabelDeviceVersion, Txt(device.ClientVersion)),
           TagLabels(device.Tags), Txt(""))

\* an update that builds the labels and annotations anew
UpdateReadReplacingMaps(cl, name, device, fp, g) ==
    IF g.err # "nil" THEN Unwritten(cl, g.err, {"update.get"})
    ELSE IF Len(device.Addresses) = 0
    THEN Unwritten(cl, "panic", {"update.get"})
    ELSE
        LET annotations ==
                (AnnotationDeviceID :> Txt(device.NodeID))
                    @@ (AnnotationDeviceHostname :> Txt(device.Hostname))
                    @@ (AnnotationDeviceAddress :> Txt(device.Addresses[1]))
            labels0 ==
                (LabelSecretType :> Txt("cluster"))
                    @@ (LabelManagedBy :> managedBy)
                    @@ (LabelDeviceOS :> Txt(device.OS))
                    @@ (LabelDeviceVersion :> Txt(device.ClientVersion))
            labels == PutAll(labels0, TagLabels(device.Tags), Txt(""))
            secret == Secret(annotations, labels, EmptyMap, StringDataOf(device))
        IN SecretsWritten(cl, ksUpdate(cl.secrets, name, secret, fp = "update.update"),
                          {"update.get", "update.update"})

\* an update that writes the device's entries into the payload it found
UpdateReadMergingPayload(cl, name, device, fp, g) ==
    IF g.err # "nil" THEN Unwritten(cl, g.err, {"update.get"})
    ELSE IF \/ IsNilMap(g.obj.annotations)
            \/ Len(device.Addresses) = 0
            \/ IsNilMap(g.obj.labels)
    THEN Unwritten(cl, "panic", {"update.get"})
    ELSE
        LET secret == Secret(MergedAnnotations(g.obj, device),
                             MergedLabels(g.obj, device),
                             g.obj.data,
                             StringDataOf(device) @@ g.obj.stringData)
        IN SecretsWritten(cl, ksUpdate(cl.secrets, name, secret, fp = "update.update"),
                          {"update.get", "update.update"})

\* UpdateDeviceSecret once its Get has answered g: writing an entry of a nil
\* map, or reading the first of no addresses, panics
UpdateRead(cl, name, device, fp, g) ==
    IF g.err # "nil" THEN Unwritten(cl, g.err, {"update.get"})
    ELSE IF \/ IsNilMap(g.obj.annotations)
            \/ Len(device.Addresses) = 0
            \/ IsNilMap(g.obj.labels)
    THEN Unwritten(cl, "panic", {"update.get"})
    ELSE
        LET secret == Secret(MergedAnnotations(g.obj, device),
                             MergedLabels(g.obj, device),
                             EmptyMap,
                             StringDataOf(device))
        IN SecretsWritten(cl, ksUpdate(cl.secrets, name, secret, fp = "update.update"),
                          {"update.get", "update.update"})

UpdateDeviceSecret(cl, name, device, fp) ==
    UpdateRead(cl, name, device, fp, ksGet(cl.secrets, name, fp = "update.get"))

\* DeleteDeviceSecret once its Get has answered g
DeleteRead(cl, name, fp, g) ==
    IF g.err = "NotFound" THEN Unwritten(cl, "nil", {"delete.get"})
    ELSE IF g.err # "nil" THEN Unwritten(cl, g.err, {"delete.get"})
    ELSE SecretsWritten(cl, ksDelete(cl.secrets, name, fp = "delete.delete"),
                        {"delete.get", "delete.delete"})

DeleteDeviceSecret(cl, name, fp) ==
    DeleteRead(cl, name, fp, ksGet(cl.secrets, name, fp = "delete.get"))

----------------------------------------------------------------------------
(* Reconciler: companion services *)

\* service.Annotations["tailscale.com/proxy-class"], if one is configured
WithProxyClass(annotations) ==
    IF proxyClass # ""
    THEN Put(annotations, AnnotationSvcProxyClass, Txt(proxyClass))
    ELSE annotations

CreateDeviceService(cl, name, device, fp) ==
    LET annotations == WithProxyClass((AnnotationSvcHostname :> Txt(device.Hostname)))
        labels0 ==
            (LabelManagedBy :> managedBy)
                @@ (LabelDeviceOS :> Txt(device.OS))
                @@ (LabelDeviceVersion :> Txt(device.ClientVersion))
        labels == PutAll(labels0, TagLabels(device.Tags), Txt(""))
    IN ServicesWritten(cl,
                       ksCreate(cl.services, ServiceNameOf[name],
                                Service(annotations, labels), fp = "service.create"),
                       {"service.create"})

\* the result of a step with one more call counted
AlsoCalled(step, calls) == [step EXCEPT !.calls = @ \cup calls]

\* UpdateDeviceService once its Get has answered g
ServiceUpdateRead(cl, name, device, fp, g) ==
    IF g.err = "NotFound"
    THEN AlsoCalled(CreateDeviceService(cl, name, device, fp), {"service.update.get"})
    ELSE IF g.err # "nil" THEN Unwritten(cl, g.err, {"service.update.get"})
    ELSE IF IsNilMap(g.obj.annotations) \/ IsNilMap(g.obj.labels)
    THEN Unwritten(cl, "panic", {"service.update.get"})
    ELSE
        LET annotations ==
                WithProxyClass(Put(g.obj.annotations, AnnotationSvcHostname,
                                   Txt(device.Hostname)))
            labels ==
                PutAll(Put(Put(Put(g.obj.labels,
                               LabelManagedBy, managedBy),
                               LabelDeviceOS, Txt(device.OS)),
                               LabelDeviceVersion, Txt(device.ClientVersion)),
                       TagLabels(device.Tags), Txt(""))
        IN ServicesWritten(cl,
                           ksUpdate(cl.services, ServiceNameOf[name],
                                    [g.obj EXCEPT !.annotations = annotations,
                                                  !.labels = labels],
                                    fp = "service.update.update"),
                           {"service.update.get", "service.update.update"})

UpdateDeviceService(cl, name, device, fp) ==
    ServiceUpdateRead(cl, name, device, fp,
                      ksGet(cl.services, ServiceNameOf[name], fp = "service.update.get"))

\* a deletion that does not read the service before it deletes it
ServiceDeleteUnread(cl, name, fp, g) ==
    ServicesWritten(cl, ksDelete(cl.services, ServiceNameOf[name],
                                 fp = "service.delete.delete"),
                    {"service.delete.delete"})

\* a deletion that leaves the service where it is
ServiceDeleteSkipped(cl, name, fp, g) == Unwritten(cl, "nil", {"service.delete.get"})

\* DeleteDeviceService once its Get has answered g
ServiceDeleteRead(cl, name, fp, g) ==
    IF g.err = "NotFound" THEN Unwritten(cl, "nil", {"service.delete.get"})
    ELSE IF g.err # "nil" THEN Unwritten(cl, g.err, {"service.delete.get"})
    ELSE ServicesWritten(cl, ksDelete(cl.services, ServiceNameOf[name],
                                      fp = "service.delete.delete"),
                         {"service.delete.get", "service.delete.delete"})

DeleteDeviceService(cl, name, fp) ==
    ServiceDeleteRead(cl, name, fp,
                      ksGet(cl.services, ServiceNameOf[name], fp = "service.delete.get"))

----------------------------------------------------------------------------
(* Reconciler: Reconcile *)

\* res is "ok" (nil error), "error" or "panic"; outcome is the value logged
\* as reconciliation.outcome; calls are the collaborator calls reached
Result(cl, res, requeue, outcome, calls) ==
    [cl |-> cl, res |-> res, requeue |-> requeue, outcome |-> outcome, calls |-> calls,
     err |-> "nil"]

\* every error of a step ends the request
AbortsOnAnyError(err, absorbed) == err # "nil"

\* a step's error ends the request unless the caller absorbs it
Aborts(err, absorbed) == err # "nil" /\ err \notin absorbed

\* an abort that hands back the error with the empty result
AbortWithoutRequeue(cl, err, outcome, calls) ==
    IF err = "panic" THEN Result(cl, "panic", FALSE, "panic", calls)
    ELSE [Result(cl, "error", FALSE, outcome, calls) EXCEPT !.err = err]

\* return reconcile.Result{Requeue: true}, err, logged under the outcome;
\* a panic unwinds the call
Abort(cl, err, outcome, calls) ==
    IF err = "panic" THEN Result(cl, "panic", FALSE, "panic", calls)
    ELSE [Result(cl, "error", TRUE, outcome, calls) EXCEPT !.err = err]

\* the devices of the listing that carry the requested name
FindDevice(devices, name) == {d \in devices : d.Name = name}

\* the end of a branch whose secret step s is followed by the service step v
ServiceStepDone(s, v, absorbed, failure, outcome) ==
    IF Aborts(v.err, absorbed) THEN Abort(v.cl, v.err, failure, s.calls \cup v.calls)
    ELSE Result(v.cl, "ok", FALSE, outcome, s.calls \cup v.calls)

\* the deletion branch once DeleteDeviceSecret has returned ds
SecretDeleted(ds, name, fp) ==
    IF Aborts(ds.err, {"NotFound"})
    THEN Abort(ds.cl, ds.err, "delete_secret_error", ds.calls)
    ELSE IF createService
    THEN ServiceStepDone(ds, DeleteDeviceService(ds.cl, name, fp), {"NotFound"},
                         "delete_service_error", "deleted")
    ELSE Result(ds.cl, "ok", FALSE, "deleted", ds.calls)

DeletionBranch(cl, name, fp) == SecretDeleted(DeleteDeviceSecret(cl, name, fp), name, fp)

\* the creation branch once CreateDeviceSecret has returned cs
SecretCreated(cs, name, device, fp) ==
    IF Aborts(cs.err, {"AlreadyExists"})
    THEN Abort(cs.cl, cs.err, "create_secret_error", cs.calls)
    ELSE IF createService
    THEN ServiceStepDone(cs, CreateDeviceService(cs.cl, name, device, fp),
                         {"AlreadyExists"}, "create_service_error", "created")
    ELSE Result(cs.cl, "ok", FALSE, "created", cs.calls)

CreationBranch(cl, name, device, fp) ==
    SecretCreated(CreateDeviceSecret(cl, name, device, fp), name, device, fp)

\* the update branch once UpdateDeviceSecret has returned us
SecretUpdated(us, name, device, fp) ==
    IF Aborts(us.err, {})
    THEN Abort(us.cl, us.err, "update_secret_error", us.calls)
    ELSE IF createService
    THEN ServiceStepDone(us, UpdateDeviceService(us.cl, name, device, fp), {},
                         "update_service_error", "updated")
    ELSE Result(us.cl, "ok", FALSE, "updated", us.calls)

UpdateBranch(cl, name, device, fp) ==
    SecretUpdated(UpdateDeviceSecret(cl, name, device, fp), name, device, fp)

\* the branches for a device that is listed and passes the filter
DeviceBranch(cl, name, device, fp, g) ==
    IF g.err = "NotFound" THEN CreationBranch(cl, name, device, fp)
    ELSE IF g.err # "nil" THEN Abort(cl, g.err, "get_secret_error", {})
    ELSE UpdateBranch(cl, name, device, fp)

\* Reconcile once the listing has answered and found the devices of the name
Listed(cl, found, name, fp) ==
    IF found = {} \/ ~Match(deviceFilters, CHOOSE d \in found : TRUE)
    THEN AlsoCalled(DeletionBranch(cl, name, fp), {"list"})
    ELSE AlsoCalled(DeviceBranch(cl, name, CHOOSE d \in found : TRUE, fp,
                                 ksGet(cl.secrets, name, fp = "get")),
                    {"list", "get"})

\* a Reconcile that takes a failed listing for an empty inventory
ReconcileIgnoringListFailure(cl, devices, name, fp) ==
    AlsoCalled(DeletionBranch(cl, name, "none"), {"list"})

\* Reconcile of the request (target namespace, name) against the cluster cl
\* and the listing devices; the call fp fails if the request reaches it
Reconcile(cl, devices, name, fp) ==
    IF fp = "list" THEN Result(cl, "error", TRUE, "tailscale_list_error", {"list"})
    ELSE Listed(cl, FindDevice(devices, name), name, fp)

\* the cluster calls of a request that act on the secret, and on the service
SecretCalls ==
    {"get", "create", "update.get", "update.update", "delete.get", "delete.delete"}

ServiceCalls ==
    {"service.create", "service.update.get", "service.update.update",
     "service.delete.get", "service.delete.delete"}

----------------------------------------------------------------------------
(* State machine *)

\* The last step taken: which operation ran, for which name, what it handed
\* back, and what the cluster held under the name when it started.
Op(op, name, res, requeue, outcome, before) ==
    [op |-> op, name |-> name, res |-> res, requeue |-> requeue,
     outcome |-> outcome, before |-> before, submitted |-> <<>>, failed |-> <<>>,
     err |-> "nil", absorbed |-> {}, batch |-> <<>>, verified |-> TRUE]

Nothing == [secret |-> FALSE, service |-> FALSE, payload |-> {}]

NoOp == Op("env", <<>>, "ok", FALSE, "none", Nothing)

\* a call in progress: the request name, the cluster call it makes next, the
\* device it found, what its last Get answered, and the writes whose error
\* Reconcile absorbed
Call(name, pc, device, got, absorbed) ==
    [name |-> name, pc |-> pc, device |-> device, got |-> got, absorbed |-> absorbed]

NoDevice == [Name |-> <<>>]

NoRead == [err |-> "unread"]

Idle == Call(<<>>, "idle", NoDevice, NoRead, {})

\* the goroutines that can be inside Reconcile at one time
Workers == {1, 2}

\* no Reconcile call in progress
NoCalls == [w \in Workers |-> Idle]

\* the payload keys of the secret under the name, textual and binary
PayloadKeys(secs, name) ==
    IF name \in DOMAIN secs
    THEN DOMAIN secs[name].data \cup DOMAIN secs[name].stringData
    ELSE {}

Before(cl, name) ==
    [secret |-> name \in DOMAIN cl.secrets,
     service |-> ServiceNameOf[name] \in DOMAIN cl.services,
     payload |-> PayloadKeys(cl.secrets, name)]

\* objects other actors of the cluster put under a name
BareSecret == Secret(EmptyMap, EmptyMap, EmptyMap, EmptyMap)

ForeignSecret ==
    Secret((Txt("existing-annotation") :> Txt("true"))
               @@ (AnnotationDeviceID :> Txt("initial-device-id")),
           (Txt("existing-label") :> Txt("true"))
               @@ (LabelDeviceOS :> Txt("initial-device-os")),
           (Txt("existing-binary-key") :> Txt("existing-binary-value")),
           (Txt("existing-key") :> Txt("existing-value")))

OwnedSecret ==
    Secret((Txt("note") :> Txt("keep")),
           (LabelManagedBy :> managedBy) @@ (Txt("team") :> Txt("payments")),
           EmptyMap,
           (Txt("existing-key") :> Txt("existing-value")))

OwnedSecretNoAnnotations ==
    Secret(EmptyMap, (LabelManagedBy :> managedBy), EmptyMap, EmptyMap)

\* Other actors write under the first name only; the second name holds what
\* the controller itself put there.  With companion services on, the
\* environment is kept to what the service paths need: secrets the controller
\* owns, devices that differ by their tags.
SecretTemplatesOf(name) ==
    IF name # NameA THEN {}
    ELSE IF createService THEN {OwnedSecret}
    ELSE {BareSecret, ForeignSecret, OwnedSecret, OwnedSecretNoAnnotations}

InventoryDevicesOf(name) ==
    IF createService
    THEN {d \in DevicesOf(name) : d.ClientVersion = "v1" /\ d.Addresses # <<>>
                                  /\ d.Tags # <<>>}
    ELSE DevicesOf(name)

BareService == Service(EmptyMap, EmptyMap)

OwnedService ==
    Service((Txt("note") :> Txt("keep")),
            (LabelManagedBy :> managedBy) @@ (Txt("team") :> Txt("payments")))

ServiceTemplates == {BareService, OwnedService}

\* no push request has been handed to the verification
NoRequest == [header |-> <<>>, body |-> "none", now |-> [unix |-> 0, frac |-> FALSE]]

NoVerdict == [err |-> "none", written |-> FALSE, object |-> <<>>]

\* the filter has not been built nor asked
Unbuilt == [err |-> <<"unbuilt">>, filter |-> <<>>]

Unprobed == [tags |-> <<>>, result |-> "none"]

\* nothing has been handed to the verification, the filter or the normalizer
Unasked ==
    /\ request = NoRequest /\ verdict = NoVerdict
    /\ built = Unbuilt /\ probe = Unprobed
    /\ input = <<>> /\ normal = <<>>

\* Run has started its loops, the webhook loop only when it is enabled, and
\* waits for them
Started(enabled) ==
    /\ webhookEnabled = enabled
    /\ cancelled = FALSE
    /\ firstErr = "nil"
    /\ managerLoop = "running"
    /\ webhookLoop = IF enabled THEN "running" ELSE "off"
    /\ run = "waiting"

\* The reconciler as the controller wires it (the manager's cached client,
\* a tag pattern) and as its own test suite wires it (a direct client, a
\* match-all filter), both without companion services.
Init ==
    /\ cachedReads \in BOOLEAN
    /\ deviceFilters = IF cachedReads THEN <<PatternX>> ELSE <<>>
    /\ createService = FALSE
    /\ proxyClass = ""
    /\ inventory = {}
    /\ secrets = EmptyMap
    /\ services = EmptyMap
    /\ last = NoOp
    /\ remainingRetries = RetryBudget
    /\ firstPassDone = FALSE
    /\ pollLoop = "running"
    /\ inflight = NoCalls
    /\ Started(FALSE)
    /\ Unasked

\* The reconciler as the controller wires it with companion services.
InitService ==
    /\ cachedReads = TRUE
    /\ deviceFilters = <<PatternX>>
    /\ createService = TRUE
    /\ proxyClass = "pc"
    /\ inventory = {}
    /\ secrets = EmptyMap
    /\ services = EmptyMap
    /\ last = NoOp
    /\ remainingRetries = RetryBudget
    /\ firstPassDone = FALSE
    /\ pollLoop = "running"
    /\ inflight = NoCalls
    /\ Started(FALSE)
    /\ Unasked

\* the inventory lists the device d, new or changed
DeviceListed(d) ==
    /\ inventory' = {x \in inventory : x.Name # d.Name} \cup {d}
    /\ last' = NoOp
    /\ UNCHANGED <<config, pure, group, hook, loop, inflight, secrets, services>>

\* the inventory lists a new or changed device under the name
DeviceAppears(name) == \E d \in InventoryDevicesOf(name) : DeviceListed(d)

\* the device leaves the inventory
DeviceDisappears(name) ==
    /\ \E d \in inventory : d.Name = name
    /\ inventory' = {x \in inventory : x.Name # name}
    /\ last' = NoOp
    /\ UNCHANGED <<config, pure, group, hook, loop, inflight, secrets, services>>

\* another actor of the cluster creates or replaces a secret
SecretApplied(name, s) ==
    /\ secrets' = Put(secrets, name, s)
    /\ last' = NoOp
    /\ UNCHANGED <<config, pure, group, hook, loop, inflight, inventory, services>>

ExternalApplySecret(name) == \E s \in SecretTemplatesOf(name) : SecretApplied(name, s)

ExternalDeleteSecret(name) ==
    /\ name \in DOMAIN secrets
    /\ secrets' = Remove(secrets, name)
    /\ last' = NoOp
    /\ UNCHANGED <<config, pure, group, hook, loop, inflight, inventory, services>>

ExternalApplyService(sname) ==
    /\ \E s \in ServiceTemplates : services' = Put(services, sname, s)
    /\ last' = NoOp
    /\ UNCHANGED <<config, pure, group, hook, loop, inflight, inventory, secrets>>

ExternalDeleteService(sname) ==
    /\ sname \in DOMAIN services
    /\ services' = Remove(services, sname)
    /\ last' = NoOp
    /\ UNCHANGED <<config, pure, group, hook, loop, inflight, inventory, secrets>>

\* the cluster and the record that a finished call r leaves
Returned(op, name, r, requeue, before) ==
    /\ secrets' = r.cl.secrets
    /\ services' = r.cl.services
    /\ last' = [Op(op, name, r.res, requeue, r.outcome, before) EXCEPT !.err = r.err]
    /\ UNCHANGED <<config, pure, group, hook, inventory, inflight>>

ReconcileReturned(name, r, before) ==
    Returned("Reconcile", name, r, r.requeue, before) /\ UNCHANGED loop

\* the request (name) run to its end with no other writer, the call fp failing
ReconcileStep(name, fp) ==
    ReconcileReturned(name, Reconcile(Cluster(secrets, services), inventory, name, fp),
                      Before(Cluster(secrets, services), name))

\* One reconciliation request.  An outage can hit any call the request
\* makes: a call it never reaches cannot fail.
ReconcileRequest(name) ==
    \E fp \in {"none"} \cup
              Reconcile(Cluster(secrets, services), inventory, name, "none").calls :
        ReconcileStep(name, fp)

\* the requests of one poll pass: the listed devices that pass the filter
\* and the secrets that carry the ownership label
deviceToSync(cl, devices) ==
    {d.Name : d \in {x \in devices : Match(deviceFilters, x)}}
        \cup {n \in DOMAIN cl.secrets : Owned(cl.secrets[n])}

\* the orders in which a range over the request map can visit its keys
Orders(S) == {o \in [1..Cardinality(S) -> S] : Range(o) = S}

\* the loop over the requests: a failed request is logged and the loop goes
\* on; a panic ends the process where it stands
RECURSIVE SyncRequests(_, _, _, _)

\* the loop's account once the request (name) has returned r and the
\* requests after it have returned rest
RequestsDone(name, r, rest) ==
    [cl |-> rest.cl,
     errs |-> (IF r.res = "error" THEN <<name>> ELSE <<>>) \o rest.errs,
     panicked |-> rest.panicked,
     calls |-> r.calls \cup rest.calls,
     submitted |-> <<name>> \o rest.submitted]

\* the loop's account when the request (name) panics with r
RequestPanicked(name, r) ==
    [cl |-> r.cl, errs |-> <<>>, panicked |-> TRUE, calls |-> r.calls,
     submitted |-> <<name>>]

\* the loop's account when nothing is left to submit
NoRequests(cl) ==
    [cl |-> cl, errs |-> <<>>, panicked |-> FALSE, calls |-> {}, submitted |-> <<>>]

RequestDone(r, devices, order, fp) ==
    IF r.res = "panic" THEN RequestPanicked(Head(order), r)
    ELSE RequestsDone(Head(order), r, SyncRequests(r.cl, devices, Tail(order), fp))

SyncRequests(cl, devices, order, fp) ==
    IF order = <<>> THEN NoRequests(cl)
    ELSE RequestDone(Reconcile(cl, devices, Head(order), fp), devices, order, fp)

\* what a batch hands back: res is "ok", "error" or "panic", submitted the
\* names given to Reconcile in order, failed those whose Reconcile returned
\* an error
Batch(cl, res, outcome, calls, submitted, failed) ==
    [cl |-> cl, res |-> res, outcome |-> outcome, calls |-> calls,
     submitted |-> submitted, failed |-> failed]

\* what a pass returns once its loop has returned p
PassDone(p) ==
    Batch(p.cl,
          IF p.panicked THEN "panic" ELSE "ok",
          IF p.panicked THEN "panic"
          ELSE IF p.errs # <<>> THEN "completed_with_error"
          ELSE "completed",
          p.calls \cup {"sync.list", "sync.secrets"},
          p.submitted, p.errs)

\* One pass of syncAllDevices, visiting the requests in the given order.  It
\* hands back an error only when one of its own two listings fails.
syncAllDevices(cl, devices, order, fp) ==
    IF fp = "sync.list"
    THEN Batch(cl, "error", "list_devices_error", {"sync.list"}, <<>>, <<>>)
    ELSE IF fp = "sync.secrets"
    THEN Batch(cl, "error", "list_secrets_error", {"sync.list", "sync.secrets"}, <<>>, <<>>)
    ELSE PassDone(SyncRequests(cl, devices, order, fp))

\* the cluster and the record that a finished batch r leaves, batch being
\* the names the batch was made of and verified telling whether the batch
\* passed the check its trigger makes
BatchReturned(op, r, batch, verified) ==
    /\ secrets' = r.cl.secrets
    /\ services' = r.cl.services
    /\ last' = [Op(op, <<>>, r.res, FALSE, r.outcome, Nothing)
                    EXCEPT !.submitted = r.submitted, !.failed = r.failed,
                           !.batch = batch, !.verified = verified]
    /\ UNCHANGED <<config, pure, hook, inventory, inflight>>

\* the group once a loop has returned: the first error a loop returns is
\* kept and cancels the context the loops share
GroupTakes(err, failed) ==
    /\ cancelled' = (cancelled \/ failed)
    /\ firstErr' = IF failed /\ firstErr = "nil" THEN err ELSE firstErr

\* a loop that never gives the budget back
TickReturnedWithoutReset(r, order) ==
    /\ BatchReturned("Sync", r, order, TRUE)
    /\ firstPassDone' = firstPassDone
    /\ remainingRetries' = IF r.res = "error" THEN remainingRetries - 1
                           ELSE remainingRetries
    /\ pollLoop' = IF r.res = "panic" THEN "panicked"
                   ELSE IF r.res = "error" /\ remainingRetries - 1 = 0 THEN "fatal"
                   ELSE "running"
    /\ GroupTakes("poll", r.res = "error" /\ remainingRetries - 1 = 0)
    /\ UNCHANGED <<webhookEnabled, managerLoop, webhookLoop, run>>

\* the tick handler once its pass has returned r: a pass that returns an
\* error costs one retry, and the last retry ends the loop; a pass that
\* returns nil restores the budget; a panic ends the process
TickReturned(r, order) ==
    /\ BatchReturned("Sync", r, order, TRUE)
    /\ firstPassDone' = firstPassDone
    /\ remainingRetries' = IF r.res = "error" THEN remainingRetries - 1
                           ELSE IF r.res = "ok" THEN RetryBudget
                           ELSE remainingRetries
    /\ pollLoop' = IF r.res = "panic" THEN "panicked"
                   ELSE IF r.res = "error" /\ remainingRetries - 1 = 0 THEN "fatal"
                   ELSE "running"
    /\ GroupTakes("poll", r.res = "error" /\ remainingRetries - 1 = 0)
    /\ UNCHANGED <<webhookEnabled, managerLoop, webhookLoop, run>>

SyncStep(order, fp) ==
    TickReturned(syncAllDevices(Cluster(secrets, services), inventory, order, fp), order)

\* the outages a pass is run under: none, one of its own two listings, the
\* inventory listing of every request, or the read of the secret, which
\* only the requests for a listed device reach
PassFailPoints == {"none", "sync.list", "sync.secrets", "list", "get"}

\* One tick of the poll loop, which only the controller's wiring runs.
PollPass ==
    /\ cachedReads
    /\ pollLoop = "running"
    /\ \E order \in Orders(deviceToSync(Cluster(secrets, services), inventory)) :
          \E fp \in PassFailPoints : SyncStep(order, fp)

\* the pass the manager runs once it has returned r: its error is the
\* manager's, whose loop returns it to the group; the poll loop then finds
\* its context cancelled and returns nil
InitialReturned(r, order) ==
    /\ BatchReturned("InitialSync", r, order, TRUE)
    /\ firstPassDone' = TRUE
    /\ remainingRetries' = remainingRetries
    /\ pollLoop' = IF r.res = "panic" THEN "panicked"
                   ELSE IF r.res = "error" THEN "stopped"
                   ELSE pollLoop
    /\ managerLoop' = IF r.res = "error" THEN "failed" ELSE managerLoop
    /\ GroupTakes("manager", r.res = "error")
    /\ UNCHANGED <<webhookEnabled, webhookLoop, run>>

\* a first pass that waits for a tick-driven pass to have returned
InitialPassReadyAfterTick ==
    /\ cachedReads
    /\ ~firstPassDone
    /\ managerLoop = "running"
    /\ pollLoop = "running"
    /\ last.op = "Sync"

\* the manager runs the pass registered with it: it has started and has not
\* run the pass yet
InitialPassReady ==
    /\ cachedReads
    /\ ~firstPassDone
    /\ managerLoop = "running"
    /\ pollLoop = "running"

\* the pass registered with the manager, run when the manager starts; it
\* returns for every order and every outage, so it has a step wherever
\* InitialPassReady holds
InitialPass ==
    /\ InitialPassReady
    /\ \E order \in Orders(deviceToSync(Cluster(secrets, services), inventory)) :
          \E fp \in PassFailPoints :
              InitialReturned(syncAllDevices(Cluster(secrets, services), inventory,
                                             order, fp), order)

----------------------------------------------------------------------------
(* Webhook *)

\* most events one verified request carries
MaxEvents == 2

WebhookNodeCreated == "nodeCreated"

WebhookNodeDeleted == "nodeDeleted"

\* event.Data of an event sent without a data field
NoData == [DeviceName |-> <<>>, present |-> FALSE]

WebhookEventData(name) == [DeviceName |-> name, present |-> TRUE]

WebhookEvent(type, data) == [Type |-> type, Data |-> data]

\* the events a request can carry
Events ==
    {WebhookEvent(WebhookNodeCreated, WebhookEventData(NameA)),
     WebhookEvent(WebhookNodeDeleted, WebhookEventData(NameB)),
     WebhookEvent("nodeApproved", WebhookEventData(NameA)),
     WebhookEvent(WebhookNodeCreated, NoData)}

\* the bodies of a request: up to MaxEvents events, no event twice
EventLists ==
    {events \in UNION {[1..n -> Events] : n \in 0..MaxEvents} :
        \A i, j \in DOMAIN events : events[i] = events[j] => i = j}

\* the event types the handler reconciles
Supported(event) == event.Type \in {WebhookNodeCreated, WebhookNodeDeleted}

\* the names a request asks to reconcile, in the order of its events
EventNames(events) ==
    [i \in DOMAIN SelectSeq(events, Supported) |->
        SelectSeq(events, Supported)[i].Data.DeviceName]

\* the loop over the events of a verified request: an event of another type
\* is skipped, reading the name of an event without data panics
RECURSIVE WebhookEvents(_, _, _, _)

EventDone(r, devices, events, fp) ==
    IF r.res = "panic" THEN RequestPanicked(Head(events).Data.DeviceName, r)
    ELSE RequestsDone(Head(events).Data.DeviceName, r,
                      WebhookEvents(r.cl, devices, Tail(events), fp))

WebhookEvents(cl, devices, events, fp) ==
    IF events = <<>> THEN NoRequests(cl)
    ELSE IF ~Supported(Head(events))
    THEN WebhookEvents(cl, devices, Tail(events), fp)
    ELSE IF ~Head(events).Data.present
    THEN [NoRequests(cl) EXCEPT !.panicked = TRUE]
    ELSE EventDone(Reconcile(cl, devices, Head(events).Data.DeviceName, fp),
                   devices, events, fp)

\* the response once the loop has returned p: a panic is recovered by the
\* router into a 500
WebhookDone(p) ==
    Batch(p.cl,
          IF p.panicked THEN "panic" ELSE IF p.errs # <<>> THEN "error" ELSE "ok",
          IF p.panicked THEN "panic"
          ELSE IF p.errs # <<>> THEN "500 Failed to reconcile devices"
          ELSE "200",
          p.calls, p.submitted, p.errs)

\* a handler that reconciles the events of every request
webhookHandlerUnverified(cl, devices, verified, events, fp) ==
    WebhookDone(WebhookEvents(cl, devices, events, fp))

\* POST /webhook, verified telling whether VerifyWebhookSignature returned
\* nil and events being what the body of the request lists
webhookHandler(cl, devices, verified, events, fp) ==
    IF ~verified
    THEN Batch(cl, "error", "401 Invalid request signature", {}, <<>>, <<>>)
    ELSE WebhookDone(WebhookEvents(cl, devices, events, fp))

\* the bodies of the requests whose signature is not verified
UnverifiedBodies == {events \in EventLists : Len(events) <= 1}

\* the outages a request is handled under
WebhookFailPoints == {"none", "get"}

WebhookRequest ==
    /\ cachedReads
    /\ pollLoop = "running"
    /\ \E verified \in BOOLEAN :
       \E events \in IF verified THEN EventLists ELSE UnverifiedBodies :
       \E fp \in IF verified THEN WebhookFailPoints ELSE {"none"} :
          /\ BatchReturned("Webhook",
                           webhookHandler(Cluster(secrets, services), inventory,
                                          verified, events, fp),
                           EventNames(events), verified)
          /\ UNCHANGED <<loop, group>>

\* a request of the controller's workqueue, served while the process runs
ControllerRequest(name) == pollLoop = "running" /\ ReconcileRequest(name)

----------------------------------------------------------------------------
(* Webhook signature.  The header is the character sequence the request    *)
(* carries; the body is named by its text, and a signature is the sequence *)
(* of what went into it, so that two signatures are equal exactly when     *)
(* their secret, their message timestamp and their body are.               *)

\* most pairs a header carries
MaxPairs == 3

\* the freshness threshold of 5 minutes, in seconds
Window == 300

ErrWebhookNotSigned == "webhook has no signature"

ErrWebhookInvalidSignature == "webhook has invalid signature"

ErrWebhookSignatureExpired == "webhook signature as expired: timestamp older than 5 minutes"

ErrWebhookSignatureMismatch == "webhook signature does not match"

SignatureErrors ==
    {ErrWebhookNotSigned, ErrWebhookInvalidSignature, ErrWebhookSignatureExpired,
     ErrWebhookSignatureMismatch}

\* strings.Split
FirstIndex(s, sep) == Min({i \in DOMAIN s : s[i] = sep})

RECURSIVE Split(_, _)
Split(s, sep) ==
    IF \A i \in DOMAIN s : s[i] # sep THEN <<s>>
    ELSE <<SubSeq(s, 1, FirstIndex(s, sep) - 1)>>
            \o Split(SubSeq(s, FirstIndex(s, sep) + 1, Len(s)), sep)

\* strconv.ParseInt(s, 10, 64), for texts short of the 64-bit range: an
\* optional sign, then at least one digit
Unsigned(s) == IF s # <<>> /\ s[1] \in {"+", "-"} THEN Tail(s) ELSE s

IsInt(s) == Unsigned(s) # <<>> /\ \A i \in DOMAIN Unsigned(s) : Unsigned(s)[i] \in Digits

DecimalDigits == <<"0", "1", "2", "3", "4", "5", "6", "7", "8", "9">>

DigitValue(c) == (CHOOSE i \in DOMAIN DecimalDigits : DecimalDigits[i] = c) - 1

RECURSIVE Magnitude(_)
Magnitude(ds) ==
    IF ds = <<>> THEN 0
    ELSE Magnitude(SubSeq(ds, 1, Len(ds) - 1)) * 10 + DigitValue(ds[Len(ds)])

ParseInt(s) == IF s[1] = "-" THEN 0 - Magnitude(Tail(s)) ELSE Magnitude(Unsigned(s))

\* fmt.Sprint of an int64
RECURSIVE Decimal(_)
Decimal(n) ==
    IF n < 10 THEN <<DecimalDigits[n + 1]>>
    ELSE Decimal(n \div 10) \o <<DecimalDigits[(n % 10) + 1]>>

FormatInt(n) == IF n < 0 THEN <<"-">> \o Decimal(0 - n) ELSE Decimal(n)

\* time.Time{}, which lies before every time.Unix of the requests, and
\* time.Unix(n, 0)
ZeroTime == [set |-> FALSE, unix |-> 0]

UnixTime(n) == [set |-> TRUE, unix |-> n]

\* a window that also closes on the timestamps of the future
TimestampOutsideWindow(timestamp, now) ==
    \/ ~timestamp.set
    \/ timestamp.unix < now.unix - Window
    \/ now.frac /\ timestamp.unix = now.unix - Window
    \/ timestamp.unix > now.unix + Window

\* timestamp.Before(now.Add(-time.Minute * 5)), now being now.unix seconds
\* and, when now.frac, a fraction of a second more
TimestampBefore(timestamp, now) ==
    \/ ~timestamp.set
    \/ timestamp.unix < now.unix - Window
    \/ now.frac /\ timestamp.unix = now.unix - Window

Parsed(err, timestamp, signatures) ==
    [err |-> err, timestamp |-> timestamp, signatures |-> signatures]

\* the loop of parseSignatureHeader over the pairs, and the check after it
RECURSIVE ParsePairs(_, _, _)

\* a loop that passes over a t pair that is no integer
ParsePairSkippingBadTimestamp(parts, rest, timestamp, signatures) ==
    IF Len(parts) # 2 THEN Parsed(ErrWebhookNotSigned, ZeroTime, <<>>)
    ELSE IF parts[1] = <<"t">>
    THEN IF ~IsInt(parts[2]) THEN ParsePairs(rest, timestamp, signatures)
         ELSE ParsePairs(rest, UnixTime(ParseInt(parts[2])), signatures)
    ELSE IF parts[1] = <<"v", "1">>
    THEN ParsePairs(rest, timestamp, Append(signatures, parts[2]))
    ELSE ParsePairs(rest, timestamp, signatures)

ParsePair(parts, rest, timestamp, signatures) ==
    IF Len(parts) # 2 THEN Parsed(ErrWebhookNotSigned, ZeroTime, <<>>)
    ELSE IF parts[1] = <<"t">>
    THEN IF ~IsInt(parts[2]) THEN Parsed(ErrWebhookInvalidSignature, ZeroTime, <<>>)
         ELSE ParsePairs(rest, UnixTime(ParseInt(parts[2])), signatures)
    ELSE IF parts[1] = <<"v", "1">>
    THEN ParsePairs(rest, timestamp, Append(signatures, parts[2]))
    ELSE ParsePairs(rest, timestamp, signatures)

ParsePairs(pairs, timestamp, signatures) ==
    IF pairs = <<>>
    THEN IF signatures = <<>> THEN Parsed(ErrWebhookNotSigned, ZeroTime, <<>>)
         ELSE Parsed("nil", timestamp, signatures)
    ELSE ParsePair(Split(Head(pairs), "="), Tail(pairs), timestamp, signatures)

parseSignatureHeader(header) ==
    IF header = <<>> THEN Parsed(ErrWebhookNotSigned, ZeroTime, <<>>)
    ELSE ParsePairs(Split(header, ","), ZeroTime, <<>>)

\* hex.EncodeToString of the HMAC-SHA256 under the secret of the message
\* made of the timestamp text, a dot and the body
HmacHex(secret, stamp, body) == <<"hmac-sha256", secret>> \o stamp \o <<".", body>>

\* the bodies of the requests: a list of one event, a text that is not JSON,
\* and a body whose read fails
BodyEvents == "[{\"type\":\"nodeCreated\",\"data\":{\"deviceName\":\"A.b.ts.net\"}}]"

BodyMalformed == "{"

BodyUnreadable == "unreadable"

Bodies == {BodyEvents, BodyMalformed, BodyUnreadable}

Verdict(err, written, object) == [err |-> err, written |-> written, object |-> object]

\* json.Unmarshal(b, object)
Unmarshal(body) ==
    IF body = BodyEvents
    THEN Verdict("nil", TRUE, <<WebhookEvent(WebhookNodeCreated, WebhookEventData(NameA))>>)
    ELSE Verdict("json: invalid character", FALSE, <<>>)

\* a verification that decodes the body before it checks the header
HeaderParsedAfterDecoding(p, req, secret) ==
    IF req.body = BodyMalformed THEN Unmarshal(req.body)
    ELSE IF p.err # "nil" THEN Verdict(p.err, FALSE, <<>>)
    ELSE IF TimestampBefore(p.timestamp, req.now) THEN Verdict(ErrWebhookSignatureExpired, FALSE, <<>>)
    ELSE IF req.body = BodyUnreadable THEN Verdict("read error", FALSE, <<>>)
    ELSE IF \A i \in DOMAIN p.signatures :
                p.signatures[i] # HmacHex(secret, FormatInt(p.timestamp.unix), req.body)
    THEN Verdict(ErrWebhookSignatureMismatch, FALSE, <<>>)
    ELSE Unmarshal(req.body)

\* a verification that only looks at the first candidate
HeaderParsedFirstCandidate(p, req, secret) ==
    IF p.err # "nil" THEN Verdict(p.err, FALSE, <<>>)
    ELSE IF TimestampBefore(p.timestamp, req.now) THEN Verdict(ErrWebhookSignatureExpired, FALSE, <<>>)
    ELSE IF req.body = BodyUnreadable THEN Verdict("read error", FALSE, <<>>)
    ELSE IF p.signatures[1] # HmacHex(secret, FormatInt(p.timestamp.unix), req.body)
    THEN Verdict(ErrWebhookSignatureMismatch, FALSE, <<>>)
    ELSE Unmarshal(req.body)

\* VerifyWebhookSignature once the header has been parsed into p
HeaderParsed(p, req, secret) ==
    IF p.err # "nil" THEN Verdict(p.err, FALSE, <<>>)
    ELSE IF TimestampBefore(p.timestamp, req.now) THEN Verdict(ErrWebhookSignatureExpired, FALSE, <<>>)
    ELSE IF req.body = BodyUnreadable THEN Verdict("read error", FALSE, <<>>)
    ELSE IF \A i \in DOMAIN p.signatures :
                p.signatures[i] # HmacHex(secret, FormatInt(p.timestamp.unix), req.body)
    THEN Verdict(ErrWebhookSignatureMismatch, FALSE, <<>>)
    ELSE Unmarshal(req.body)

VerifyWebhookSignature(req, secret) ==
    HeaderParsed(parseSignatureHeader(req.header), req, secret)

\* --ts.webhook.secret, and the secret of another sender
WebhookSecret == "s1"

OtherSecret == "s2"

\* the times of arrival: a whole second, and the same second and a
\* fraction
Nows == {[unix |-> 1000, frac |-> FALSE], [unix |-> 1000, frac |-> TRUE]}

\* the timestamp texts of the headers: 300 seconds old, 301 seconds old, in
\* the future, 300 seconds old with a leading zero, and no integer
Stamps ==
    {<<"7", "0", "0">>, <<"6", "9", "9">>, <<"1", "5", "0", "0">>,
     <<"0", "7", "0", "0">>, <<"x">>}

Pair(key, value) == key \o <<"=">> \o value

\* the pairs of the headers sent with the body: timestamps, signatures of
\* the body under the secret and under another, a pair under another
\* version and a pair without "="
PairsOf(body) ==
    {Pair(<<"t">>, stamp) : stamp \in Stamps}
        \cup {Pair(<<"v", "1">>, HmacHex(WebhookSecret, stamp, body)) :
                stamp \in {<<"7", "0", "0">>, <<"1", "5", "0", "0">>}}
        \cup {Pair(<<"v", "1">>, HmacHex(OtherSecret, <<"7", "0", "0">>, body)),
              Pair(<<"v", "2">>, HmacHex(WebhookSecret, <<"7", "0", "0">>, body)),
              <<"j", "u", "n", "k">>}

Request(header, body, now) == [header |-> header, body |-> body, now |-> now]

\* a push request arrives: its body and its time of arrival
Receive ==
    /\ request = NoRequest
    /\ \E body \in Bodies : \E now \in Nows : request' = Request(<<>>, body, now)
    /\ verdict' = NoVerdict
    /\ UNCHANGED <<config, pure, loop, group, inflight, inventory, secrets, services, last>>

\* the header with one more pair at its end
WithPair(header, pair) == IF header = <<>> THEN pair ELSE header \o <<",">> \o pair

\* the sender had put one more pair into the header, up to MaxPairs
SendPair ==
    /\ request # NoRequest
    /\ verdict = NoVerdict
    /\ request.header = <<>> \/ Len(Split(request.header, ",")) < MaxPairs
    /\ \E pair \in PairsOf(request.body) :
          request' = [request EXCEPT !.header = WithPair(request.header, pair)]
    /\ UNCHANGED <<config, pure, loop, group, inflight, inventory, secrets, services, last,
                   verdict>>

\* the handler has the request verified
Verify ==
    /\ request # NoRequest
    /\ verdict = NoVerdict
    /\ verdict' = VerifyWebhookSignature(request, WebhookSecret)
    /\ UNCHANGED <<config, pure, loop, group, inflight, inventory, secrets, services, last, request>>

----------------------------------------------------------------------------
(* The group of the loops.  Run starts the loops in an errgroup whose       *)
(* context the signal handler cancels, and returns what Wait returns.       *)

\* the process receives its first termination signal
Signal ==
    /\ ~cancelled
    /\ run = "waiting"
    /\ cancelled' = TRUE
    /\ UNCHANGED <<config, pure, loop, hook, inflight, inventory, secrets, services, last,
                   webhookEnabled, firstErr, managerLoop, webhookLoop, run>>

\* the poll loop finds its context done and returns nil
PollLoopReturns ==
    /\ cancelled
    /\ pollLoop = "running"
    /\ pollLoop' = "returned"
    /\ UNCHANGED <<config, pure, group, hook, inflight, inventory, secrets, services, last,
                   remainingRetries, firstPassDone>>

\* the manager finds its context done and Start returns nil
ManagerReturns ==
    /\ cancelled
    /\ managerLoop = "running"
    /\ managerLoop' = "returned"
    /\ UNCHANGED <<config, pure, loop, hook, inflight, inventory, secrets, services, last,
                   webhookEnabled, cancelled, firstErr, webhookLoop, run>>

\* ListenAndServe returns an error of its own, which the webhook loop
\* returns; nothing else makes ListenAndServe return
ListenFails ==
    /\ webhookLoop = "running"
    /\ ~cancelled
    /\ webhookLoop' = "failed"
    /\ GroupTakes("listen", TRUE)
    /\ UNCHANGED <<config, pure, loop, hook, inflight, inventory, secrets, services, last,
                   webhookEnabled, managerLoop, run>>

\* every loop of the group has returned
Joined ==
    /\ pollLoop \in {"returned", "fatal", "stopped"}
    /\ managerLoop # "running"
    /\ webhookLoop # "running"

\* Wait returns the first error of the group, and Run returns it
RunReturns ==
    /\ run = "waiting"
    /\ Joined
    /\ run' = firstErr
    /\ UNCHANGED <<config, pure, loop, hook, inflight, inventory, secrets, services, last,
                   webhookEnabled, cancelled, firstErr, managerLoop, webhookLoop>>

----------------------------------------------------------------------------
(* Concurrent requests.  The loops of the controller call Reconcile from    *)
(* their own goroutines, so two calls for one name can interleave: each     *)
(* call to the cluster is one step, and what a call read it keeps until its *)
(* write.                                                                   *)

ReadSteps == {"get", "update.get", "service.update.get", "delete.get", "service.delete.get"}

WriteSteps ==
    {"create", "service.create", "update.update", "service.update.update",
     "delete.delete", "service.delete.delete"}

OnService(pc) == pc \in ServiceCalls

\* Reconcile from its start to its first cluster call: the listing, the
\* search of the name and the filter
Begun(name, found) ==
    IF found = {} \/ ~Match(deviceFilters, CHOOSE d \in found : TRUE)
    THEN Call(name, "delete.get", NoDevice, NoRead, {})
    ELSE Call(name, "get", CHOOSE d \in found : TRUE, NoRead, {})

Begin(w, name) ==
    /\ inflight[w] = Idle
    /\ inflight' = [inflight EXCEPT ![w] = Begun(name, FindDevice(inventory, name))]
    /\ UNCHANGED <<config, pure, group, hook, loop, inventory, secrets, services, last>>

\* the write that follows a read
WriteAfter(pc) ==
    CASE pc = "update.get" -> "update.update"
      [] pc = "service.update.get" -> "service.update.update"
      [] pc = "delete.get" -> "delete.delete"
      [] pc = "service.delete.get" -> "service.delete.delete"

\* the call once its Get has answered g
AfterRead(c, g) ==
    IF c.pc = "get"
    THEN [c EXCEPT !.pc = IF g.err = "NotFound" THEN "create" ELSE "update.get"]
    ELSE [c EXCEPT !.pc = WriteAfter(c.pc), !.got = g]

Read(w) ==
    /\ inflight[w].pc \in ReadSteps
    /\ inflight' = [inflight EXCEPT ![w] =
                       AfterRead(@, IF OnService(@.pc)
                                    THEN ksGet(services, ServiceNameOf[@.name], FALSE)
                                    ELSE ksGet(secrets, @.name, FALSE))]
    /\ UNCHANGED <<config, pure, group, hook, loop, inventory, secrets, services, last>>

\* An Update carries the version of the object that was read: the API server
\* refuses it when the object was written or removed since.
Conflict(objects, key, g, call) ==
    IF g.err = "nil" /\ ~(key \in DOMAIN objects /\ objects[key] = g.obj)
    THEN call ELSE "none"

\* the step of the engine a call takes at its write
StepOf(c, cl) ==
    CASE c.pc = "create" -> CreateDeviceSecret(cl, c.name, c.device, "none")
      [] c.pc = "service.create" -> CreateDeviceService(cl, c.name, c.device, "none")
      [] c.pc = "update.update" ->
            UpdateRead(cl, c.name, c.device,
                       Conflict(cl.secrets, c.name, c.got, "update.update"), c.got)
      [] c.pc = "service.update.update" ->
            ServiceUpdateRead(cl, c.name, c.device,
                              Conflict(cl.services, ServiceNameOf[c.name], c.got,
                                       "service.update.update"), c.got)
      [] c.pc = "delete.delete" -> DeleteRead(cl, c.name, "none", c.got)
      [] c.pc = "service.delete.delete" -> ServiceDeleteRead(cl, c.name, "none", c.got)

\* the errors Reconcile absorbs after a step, the outcome it logs when the
\* step fails, the step that follows with companion services on, and the
\* outcome of the branch
AbsorbedAt(pc) ==
    IF pc \in {"create", "service.create"} THEN {"AlreadyExists"}
    ELSE IF pc \in {"delete.delete", "service.delete.delete"} THEN {"NotFound"}
    ELSE {}

FailureAt(pc) ==
    CASE pc = "create" -> "create_secret_error"
      [] pc = "service.create" -> "create_service_error"
      [] pc = "update.update" -> "update_secret_error"
      [] pc = "service.update.update" -> "update_service_error"
      [] pc = "delete.delete" -> "delete_secret_error"
      [] pc = "service.delete.delete" -> "delete_service_error"

ServiceStepAfter(pc) ==
    CASE pc = "create" -> "service.create"
      [] pc = "update.update" -> "service.update.get"
      [] pc = "delete.delete" -> "service.delete.get"

OutcomeAt(pc) ==
    IF pc \in {"create", "service.create"} THEN "created"
    ELSE IF pc \in {"update.update", "service.update.update"} THEN "updated"
    ELSE "deleted"

\* the call w returns r
Finished(w, name, r, absorbed) ==
    /\ secrets' = r.cl.secrets
    /\ services' = r.cl.services
    /\ last' = [Op("Reconcile", name, r.res, r.requeue, r.outcome, Nothing)
                    EXCEPT !.err = r.err, !.absorbed = absorbed]
    /\ inflight' = [inflight EXCEPT ![w] = Idle]
    /\ UNCHANGED <<config, pure, group, hook, loop, inventory>>

\* the call w goes on to its service step
Continued(w, c, cl, absorbed) ==
    /\ secrets' = cl.secrets
    /\ services' = cl.services
    /\ inflight' = [inflight EXCEPT ![w] =
                       [c EXCEPT !.pc = ServiceStepAfter(c.pc), !.got = NoRead,
                                 !.absorbed = absorbed]]
    /\ UNCHANGED <<config, pure, group, hook, loop, inventory, last>>

\* the writes of the call whose error was absorbed, the step s included
AbsorbedBy(c, s) == IF s.err # "nil" THEN c.absorbed \cup {c.pc} ELSE c.absorbed

\* the call w once its step has handed back s
Written(w, c, s) ==
    IF Aborts(s.err, AbsorbedAt(c.pc))
    THEN Finished(w, c.name, Abort(s.cl, s.err, FailureAt(c.pc), {}), c.absorbed)
    ELSE IF createService /\ ~OnService(c.pc)
    THEN Continued(w, c, s.cl, AbsorbedBy(c, s))
    ELSE Finished(w, c.name, Result(s.cl, "ok", FALSE, OutcomeAt(c.pc), {}),
                  AbsorbedBy(c, s))

Write(w) ==
    /\ inflight[w].pc \in WriteSteps
    /\ Written(w, inflight[w], StepOf(inflight[w], Cluster(secrets, services)))

----------------------------------------------------------------------------
(* Specifications *)

Next ==
    \/ \E n \in Names : DeviceAppears(n)
    \/ \E n \in Names : DeviceDisappears(n)
    \/ \E n \in Names : ExternalApplySecret(n)
    \/ \E n \in Names : ExternalDeleteSecret(n)
    \/ \E n \in Names : ReconcileRequest(n)

Spec == Init /\ [][Next]_vars

NextService ==
    \/ \E n \in Names : DeviceAppears(n)
    \/ \E n \in Names : DeviceDisappears(n)
    \/ \E n \in Names : ExternalApplySecret(n)
    \/ \E n \in Names : ExternalDeleteSecret(n)
    \/ \E n \in Names : ReconcileRequest(n)
    \/ \E sn \in ServiceNames : ExternalApplyService(sn)
    \/ \E sn \in ServiceNames : ExternalDeleteService(sn)

SpecService == InitService /\ [][NextService]_vars

\* The controller as RunCmd.Run wires it, without companion services: the
\* workqueue, the poll loop with the pass at the manager's start, and the
\* webhook.
InitPoll ==
    /\ cachedReads = TRUE
    /\ deviceFilters = <<PatternX>>
    /\ createService = FALSE
    /\ proxyClass = ""
    /\ inventory = {}
    /\ secrets = EmptyMap
    /\ services = EmptyMap
    /\ last = NoOp
    /\ remainingRetries = RetryBudget
    /\ firstPassDone = FALSE
    /\ pollLoop = "running"
    /\ inflight = NoCalls
    /\ Started(TRUE)
    /\ Unasked

\* The environment of the controller: under the first name a device that
\* passes the filter, with or without addresses, or one that does not pass
\* it, and a secret another actor applied with or without the ownership
\* label; under the second name the one device.
PollDevicesOf(name) ==
    IF name = NameA
    THEN {Device(name, "v1", <<TagX>>, as) : as \in AddrLists}
            \cup {Device(name, "v1", <<>>, <<"ip1">>)}
    ELSE DevicesOf(name)

PollSecretTemplates == {BareSecret, OwnedSecret}

NextPoll ==
    \/ \E n \in Names : \E d \in PollDevicesOf(n) : DeviceListed(d)
    \/ \E n \in Names : DeviceDisappears(n)
    \/ \E s \in PollSecretTemplates : SecretApplied(NameA, s)
    \/ \E n \in Names : ExternalDeleteSecret(n)
    \/ \E n \in Names : ControllerRequest(n)
    \/ InitialPass
    \/ PollPass
    \/ WebhookRequest

SpecPoll == InitPoll /\ [][NextPoll]_vars

\* The reconciler with companion services, called for the first name from
\* two goroutines at once while the inventory and the cluster change.
RaceDevices == {Device(NameA, v, <<TagX>>, <<"ip1">>) : v \in {"v1", "v2"}}

NextRace ==
    \/ \E w \in Workers : Begin(w, NameA)
    \/ \E w \in Workers : Read(w)
    \/ \E w \in Workers : Write(w)
    \/ \E d \in RaceDevices : DeviceListed(d)
    \/ DeviceDisappears(NameA)
    \/ ExternalDeleteSecret(NameA)
    \/ ExternalDeleteService(ServiceNameOf[NameA])

SpecRace == InitService /\ [][NextRace]_vars

\* The loops of the controller from the start of Run to its return, with
\* or without the webhook, over an inventory of devices that have an address.
InitShutdown ==
    /\ cachedReads = TRUE
    /\ deviceFilters = <<PatternX>>
    /\ createService = FALSE
    /\ proxyClass = ""
    /\ inventory = {}
    /\ secrets = EmptyMap
    /\ services = EmptyMap
    /\ last = NoOp
    /\ remainingRetries = RetryBudget
    /\ firstPassDone = FALSE
    /\ pollLoop = "running"
    /\ inflight = NoCalls
    /\ \E enabled \in BOOLEAN : Started(enabled)
    /\ Unasked

ShutdownDevices == {d \in PollDevicesOf(NameA) : d.Addresses # <<>>}

NextShutdown ==
    \/ \E d \in ShutdownDevices : DeviceListed(d)
    \/ DeviceDisappears(NameA)
    \/ InitialPass
    \/ PollPass
    \/ Signal
    \/ ListenFails
    \/ PollLoopReturns
    \/ ManagerReturns
    \/ RunReturns

\* a loop whose context is done returns, and Wait returns once the loops
\* have
SpecShutdown ==
    /\ InitShutdown
    /\ [][NextShutdown]_vars
    /\ WF_vars(PollLoopReturns)
    /\ WF_vars(ManagerReturns)
    /\ WF_vars(RunReturns)

\* The signature verification alone: one request arrives, with the header
\* its sender made, and is verified.
NextVerify == Receive \/ SendPair \/ Verify

SpecVerify == InitPoll /\ [][NextVerify]_vars

----------------------------------------------------------------------------
(* The tag filter alone: the patterns are given one by one, the filter is   *)
(* built from them, and a device is handed to it.                           *)

\* most patterns the filter is built from
MaxPatterns == 2

\* "y", "x.*y", "[x" and "x\$"
PatternY == <<"y">>

PatternSpan == <<"x", ".", "*", "y">>

PatternUnclosed == <<"[", "x">>

PatternDollar == <<"x", "\\", "$">>

FilterPatterns == {PatternX, PatternY, PatternSpan, PatternUnclosed, PatternDollar}

TagXY == <<"t", "a", "g", ":", "x", "y">>

\* the tags of the devices handed to the filter
FilterTagLists == {<<>>, <<TagX>>, <<TagY>>, <<TagX, TagY>>, <<TagY, TagX>>, <<TagXY>>}

InitFilter ==
    /\ cachedReads = TRUE
    /\ deviceFilters = <<>>
    /\ createService = FALSE
    /\ proxyClass = ""
    /\ inventory = {}
    /\ secrets = EmptyMap
    /\ services = EmptyMap
    /\ last = NoOp
    /\ remainingRetries = RetryBudget
    /\ firstPassDone = FALSE
    /\ pollLoop = "running"
    /\ inflight = NoCalls
    /\ Started(FALSE)
    /\ Unasked

\* what the calls of the filter and of the normalizer leave alone
cluster == <<cachedReads, createService, proxyClass, loop, group, hook, inflight,
             inventory, secrets, services, last>>

\* one more --ts.device-filter pattern
AddPattern ==
    /\ built = Unbuilt
    /\ Len(deviceFilters) < MaxPatterns
    /\ \E p \in FilterPatterns : deviceFilters' = Append(deviceFilters, p)
    /\ UNCHANGED <<cluster, pure>>

\* Run builds the filter from the patterns
BuildFilter ==
    /\ built = Unbuilt
    /\ built' = NewRegexpTagFilter(deviceFilters)
    /\ UNCHANGED <<cluster, deviceFilters, probe, input, normal>>

\* a device is handed to the filter that was returned
MatchDevice ==
    /\ built # Unbuilt /\ built.filter # <<>>
    /\ probe = Unprobed
    /\ \E tags \in FilterTagLists :
          probe' = [tags |-> tags,
                    result |-> FilterMatch(built.filter[1],
                                           Device(NameA, "v1", tags, <<"ip1">>))]
    /\ UNCHANGED <<cluster, deviceFilters, built, input, normal>>

NextFilter == AddPattern \/ BuildFilter \/ MatchDevice

SpecFilter == InitFilter /\ [][NextFilter]_vars

----------------------------------------------------------------------------
(* The name normalizer alone: a device name is typed, normalized, and the   *)
(* result is normalized again.                                              *)

\* most characters typed one by one
MaxTyped == 3

\* the characters of the typed names: a capital, a letter, a digit, a dot,
\* a hyphen and a character no DNS name has
NameChars == {"A", "b", "1", ".", "-", "_"}

\* a name one character short of the limit once a character is typed
LongName == [i \in 1..(MaxNameLen - 1) |-> "a"]

\* the characters typed one by one so far
Typed(name) == IF Len(name) >= Len(LongName) THEN Len(name) - Len(LongName) ELSE Len(name)

TypeLongName ==
    /\ input = <<>> /\ normal = <<>>
    /\ input' = LongName
    /\ UNCHANGED <<cluster, deviceFilters, built, probe, normal>>

TypeChar ==
    /\ normal = <<>>
    /\ Typed(input) < MaxTyped
    /\ \E c \in NameChars : input' = Append(input, c)
    /\ UNCHANGED <<cluster, deviceFilters, built, probe, normal>>

\* toDNS1035Name of the name, then of what it returned
Normalize ==
    /\ Len(normal) < 2
    /\ normal' = Append(normal, toDNS1035Name(IF normal = <<>> THEN input
                                              ELSE normal[Len(normal)]))
    /\ UNCHANGED <<cluster, deviceFilters, built, probe, input>>

NextName == TypeLongName \/ TypeChar \/ Normalize

SpecName == InitFilter /\ [][NextName]_vars

\* a Reconcile of the name that returns without error
ReconciledWithoutError(name) == ReconcileStep(name, "none") /\ last'.res = "ok"

\* The reconciler with companion services when nothing but its own calls
\* writes to the cluster and every call returns without error, for two
\* names that share their service name and one that does not.
NextPairs ==
    \/ \E n \in AllNames : DeviceAppears(n)
    \/ \E n \in AllNames : DeviceDisappears(n)
    \/ \E n \in AllNames : ReconciledWithoutError(n)

SpecPairs == InitService /\ [][NextPairs]_vars

----------------------------------------------------------------------------
(* Claims *)

\* the devices of the inventory that carry the name and pass the filter
MatchingDevices(name) ==
    {d \in inventory : d.Name = name /\ Match(deviceFilters, d)}

\* a secret carrying the ownership label is stored under the name
ManagedSecretExists(name) == name \in DOMAIN secrets /\ Owned(secrets[name])

\* the last step was a Reconcile that returned no error
ReconcileSucceeded == last.op = "Reconcile" /\ last.res = "ok"

\* C1: after a Reconcile of N that returns without error, a managed secret
\* exists under N if and only if the inventory holds a device named N that
\* passes the tag filter.
C1_ManagedSecretIffMatchingDevice ==
    ReconcileSucceeded =>
        (ManagedSecretExists(last.name) <=> MatchingDevices(last.name) # {})

\* C2: after one complete poll pass in which no call failed, for every name a
\* secret carrying the ownership label exists if and only if a device of
\* that name is in the inventory and passes the filter.
C2_PollPassConverges ==
    (last.op = "Sync" /\ last.outcome = "completed") =>
        \A n \in Names : ManagedSecretExists(n) <=> MatchingDevices(n) # {}

\* the keys an update writes; every other key is unrelated to the device
DeviceAnnotationKeys ==
    {AnnotationDeviceID, AnnotationDeviceHostname, AnnotationDeviceAddress,
     AnnotationDeviceTailnet}

IsTagLabel(k) == k[1] = LabelDeviceTagsPrefix

IsDeviceLabel(k) ==
    k \in {LabelSecretType, LabelManagedBy, LabelDeviceOS, LabelDeviceVersion}
        \/ IsTagLabel(k)

\* every entry of the old map under a key outside the written ones is in the new map
KeepsUnrelated(old, new, written(_)) ==
    \A k \in DOMAIN old : ~written(k) => (k \in DOMAIN new /\ new[k] = old[k])

IsDeviceAnnotation(k) == k \in DeviceAnnotationKeys

\* the id, hostname, address, OS, version, ownership and tag entries of the
\* secret are the device's
CarriesDevice(secret, d) ==
    /\ AnnotationDeviceID \in DOMAIN secret.annotations
    /\ secret.annotations[AnnotationDeviceID] = Txt(d.NodeID)
    /\ AnnotationDeviceHostname \in DOMAIN secret.annotations
    /\ secret.annotations[AnnotationDeviceHostname] = Txt(d.Hostname)
    /\ AnnotationDeviceAddress \in DOMAIN secret.annotations
    /\ d.Addresses # <<>>
    /\ secret.annotations[AnnotationDeviceAddress] = Txt(d.Addresses[1])
    /\ LabelDeviceOS \in DOMAIN secret.labels
    /\ secret.labels[LabelDeviceOS] = Txt(d.OS)
    /\ LabelDeviceVersion \in DOMAIN secret.labels
    /\ secret.labels[LabelDeviceVersion] = Txt(d.ClientVersion)
    /\ LabelManagedBy \in DOMAIN secret.labels
    /\ secret.labels[LabelManagedBy] = managedBy
    /\ \A i \in DOMAIN d.Tags :
          /\ TagLabel(d.Tags[i]) \in DOMAIN secret.labels
          /\ secret.labels[TagLabel(d.Tags[i])] = Txt("")

\* C3: a Reconcile that updates the secret of N keeps every label and every
\* annotation whose key is not one the update writes, with its value, and
\* the id, hostname, address, OS, version, ownership and tag entries take
\* the values of the current device.
C3_UpdatePreservesUnrelatedKeys ==
    [][\A n \in Names :
          (ReconcileStep(n, "none") /\ last'.outcome = "updated") =>
              /\ KeepsUnrelated(secrets[n].labels, secrets'[n].labels, IsDeviceLabel)
              /\ KeepsUnrelated(secrets[n].annotations, secrets'[n].annotations,
                                IsDeviceAnnotation)
              /\ \A d \in MatchingDevices(n) : CarriesDevice(secrets'[n], d)]_vars

\* C3 is exercised: a secret another actor wrote, with an unrelated label
\* and annotation and a stale OS label, has been updated for a device.
C3_Witness ==
    /\ ReconcileSucceeded /\ last.outcome = "updated"
    /\ Txt("existing-label") \in DOMAIN secrets[last.name].labels
    /\ Txt("existing-annotation") \in DOMAIN secrets[last.name].annotations
    /\ secrets[last.name].labels[LabelDeviceOS] = Txt("linux")

\* C4: after a successful Reconcile that updated the existing secret of a
\* matching device, the id, hostname and address annotations and the OS and
\* version labels equal the device's, and the tag labels of the secret are
\* exactly the labels of the device's current tags.
C4_DeviceFieldsEqualDevice ==
    (ReconcileSucceeded /\ last.outcome = "updated") =>
        \A d \in MatchingDevices(last.name) :
            /\ CarriesDevice(secrets[last.name], d)
            /\ {k \in DOMAIN secrets[last.name].labels : IsTagLabel(k)}
                   = Range(TagLabels(d.Tags))

\* the name has the form <host>.<x>.ts.net
HasTailnetForm(name) ==
    /\ HasSuffix(name, DotTsNet)
    /\ \E i \in 1..(Len(name) - Len(DotTsNet) - 1) : name[i] = "."

\* the part of the name after its first dot
AfterFirstDot(name) ==
    SubSeq(name, Min({i \in 1..Len(name) : name[i] = "."}) + 1, Len(name))

\* the secret the specification describes for a device that had none
IsSecretOf(secret, d) ==
    /\ AnnotationDeviceID \in DOMAIN secret.annotations
    /\ secret.annotations[AnnotationDeviceID] = Txt(d.NodeID)
    /\ IF HasTailnetForm(d.Name)
       THEN /\ AnnotationDeviceTailnet \in DOMAIN secret.annotations
            /\ secret.annotations[AnnotationDeviceTailnet] = Cat("", AfterFirstDot(d.Name))
       ELSE AnnotationDeviceTailnet \notin DOMAIN secret.annotations
    /\ DOMAIN secret.labels =
           {LabelSecretType, LabelManagedBy, LabelDeviceOS, LabelDeviceVersion}
               \cup {TagLabel(d.Tags[i]) : i \in DOMAIN d.Tags}
    /\ secret.labels[LabelSecretType] = Txt("cluster")
    /\ secret.labels[LabelManagedBy] = managedBy
    /\ secret.labels[LabelDeviceOS] = Txt(d.OS)
    /\ secret.labels[LabelDeviceVersion] = Txt(d.ClientVersion)
    /\ \A i \in DOMAIN d.Tags : secret.labels[TagLabel(d.Tags[i])] = Txt("")
    /\ secret.data = EmptyMap
    /\ DOMAIN secret.stringData = {Txt("name"), Txt("server"), Txt("config")}
    /\ secret.stringData[Txt("name")] = Cat("", d.Name)
    /\ secret.stringData[Txt("server")] = Cat("https://", d.Name)
    /\ secret.stringData[Txt("config")] = TLSConfig

\* C5: when a matching device has no secret and no call fails, Reconcile
\* returns success with an empty result and the secret stored under the
\* device name carries the device id, the tailnet of a <host>.<x>.ts.net
\* name, the secret-type, ownership, OS, version and tag labels, and the
\* payload name, server and config.
C5_CreatesSecretOfDevice ==
    [][\A n \in Names :
          (ReconcileStep(n, "none") /\ n \notin DOMAIN secrets
                /\ MatchingDevices(n) # {}) =>
              /\ last'.res = "ok" /\ ~last'.requeue
              /\ n \in DOMAIN secrets'
              /\ \A d \in MatchingDevices(n) : IsSecretOf(secrets'[n], d)]_vars

\* C6: for an unchanged matching device, a Reconcile in which no call fails
\* returns success, and when it follows a successful Reconcile of the same
\* name it leaves the secret as the first pass left it.
C6_ReconcileTwiceIsIdempotent ==
    [][\A n \in Names :
          (ReconcileStep(n, "none") /\ MatchingDevices(n) # {}) =>
              /\ last'.res = "ok"
              /\ (ReconcileSucceeded /\ last.name = n) => secrets' = secrets]_vars

\* C7: a Reconcile, in which no call fails, of a name that has no matching
\* device and no secret returns no error and an empty result and leaves
\* every secret and every service as it was.
C7_DeletionOfAbsentLeavesClusterUnchanged ==
    [][\A n \in Names :
          (ReconcileStep(n, "none") /\ MatchingDevices(n) = {}
                /\ n \notin DOMAIN secrets) =>
              /\ last'.res = "ok" /\ ~last'.requeue
              /\ secrets' = secrets
              /\ services' = services]_vars

\* C7, amended: such a Reconcile returns no error and an empty result,
\* leaves every secret as it was, and changes the services only by removing
\* the service under the normalized name, when companion services are
\* enabled and the client can read one there.
C7_DeletionOfAbsentRemovesOnlyService ==
    [][\A n \in Names :
          (ReconcileStep(n, "none") /\ MatchingDevices(n) = {}
                /\ n \notin DOMAIN secrets) =>
              /\ last'.res = "ok" /\ ~last'.requeue
              /\ secrets' = secrets
              /\ services' =
                    IF /\ createService
                       /\ ServiceNameOf[n] \in DOMAIN services
                       /\ Visible(services[ServiceNameOf[n]])
                    THEN Remove(services, ServiceNameOf[n])
                    ELSE services]_vars

\* C7 is exercised: a name with no matching device and no secret, whose
\* service another Reconcile had left behind, has been reconciled.
C7_Witness ==
    /\ ReconcileSucceeded /\ last.outcome = "deleted"
    /\ ~last.before.secret /\ last.before.service
    /\ MatchingDevices(last.name) = {}
    /\ ServiceNameOf[last.name] \notin DOMAIN services

\* C8: a Reconcile of a matching device with an empty address list does not
\* crash, returns no error unless a call failed, and leaves a secret with
\* the device's id, OS, version and tag metadata.
C8_EmptyAddressListCompletes ==
    (last.op = "Reconcile" /\ last.res # "error") =>
        \A d \in MatchingDevices(last.name) :
            d.Addresses = <<>> =>
                /\ last.res = "ok"
                /\ last.name \in DOMAIN secrets
                /\ secrets[last.name].annotations[AnnotationDeviceID] = Txt(d.NodeID)
                /\ secrets[last.name].labels[LabelDeviceOS] = Txt(d.OS)
                /\ secrets[last.name].labels[LabelDeviceVersion] = Txt(d.ClientVersion)
                /\ \A i \in DOMAIN d.Tags :
                      TagLabel(d.Tags[i]) \in DOMAIN secrets[last.name].labels

\* C9: after a Reconcile that updated a secret, the payload of the secret is
\* exactly the entries name, server and config of the device, and no binary
\* entry is left.
C9_UpdateReplacesPayload ==
    (ReconcileSucceeded /\ last.outcome = "updated") =>
        /\ secrets[last.name].data = EmptyMap
        /\ DOMAIN secrets[last.name].stringData =
               {Txt("name"), Txt("server"), Txt("config")}
        /\ secrets[last.name].stringData[Txt("name")] = Cat("", last.name)
        /\ secrets[last.name].stringData[Txt("server")] = Cat("https://", last.name)
        /\ secrets[last.name].stringData[Txt("config")] = TLSConfig

\* C9 is exercised: the updated secret held a textual and a binary entry of
\* another actor before the update.
C9_Witness ==
    /\ ReconcileSucceeded /\ last.outcome = "updated"
    /\ {Txt("existing-key"), Txt("existing-binary-key")} \subseteq last.before.payload

\* C10: a Reconcile whose inventory listing fails returns an error with
\* Requeue set and leaves every secret and every service as it was.
C10_ListFailureAbortsRequest ==
    [][\A n \in Names :
          ReconcileStep(n, "list") =>
              /\ last'.res = "error" /\ last'.requeue
              /\ secrets' = secrets
              /\ services' = services]_vars

\* C10 is exercised: the listing failed while the cluster held a secret and
\* a service.
C10_Witness ==
    /\ last.op = "Reconcile" /\ last.outcome = "tailscale_list_error"
    /\ last.before.secret /\ last.before.service

\* the calls the request (name) makes when none of them fails
CallsOf(name) == Reconcile(Cluster(secrets, services), inventory, name, "none").calls

\* C11: every Reconcile that returns success returns the empty result
\* (Requeue=false) from the created, updated or deleted path, every one that
\* returns an error returns Requeue=true, and a cluster call of the request
\* that fails ends the request at that call: the error is returned with
\* Requeue=true and nothing is written by that call or after it.
C11_ResultIsTwoValued ==
    [][/\ last'.op = "Reconcile" /\ last'.res = "ok" =>
              ~last'.requeue /\ last'.outcome \in {"created", "updated", "deleted"}
       /\ last'.op = "Reconcile" /\ last'.res = "error" => last'.requeue
       /\ \A n \in Names : \A fp \in (SecretCalls \cup ServiceCalls) \cap CallsOf(n) :
              ReconcileStep(n, fp) =>
                  /\ last'.res = "error" /\ last'.requeue
                  /\ services' = services
                  /\ fp \in SecretCalls => secrets' = secrets]_vars

\* a request ended by the failure of the last call of the update branch
C11_Witness ==
    /\ last.op = "Reconcile" /\ last.res = "error" /\ last.requeue
    /\ last.outcome = "update_service_error"

\* C12: when another actor removed the secret between the deletion branch's
\* Get and its Delete, the call goes on to the service step with the secret
\* absent; when the service was removed between its Get and its Delete, the
\* call returns success with the service absent; and every call that ends
\* in the deletion branch returns success.
C12_NotFoundOnDeleteAbsorbed ==
    [][\A w \in Workers :
          /\ (/\ inflight[w].pc = "delete.delete" /\ inflight[w].got.err = "nil"
              /\ inflight[w].name \notin DOMAIN secrets
              /\ Write(w)) =>
                 /\ inflight[w].name \notin DOMAIN secrets'
                 /\ inflight'[w].pc = "service.delete.get"
                 /\ "delete.delete" \in inflight'[w].absorbed
          /\ (/\ inflight[w].pc = "service.delete.delete" /\ inflight[w].got.err = "nil"
              /\ ServiceNameOf[inflight[w].name] \notin DOMAIN services
              /\ Write(w)) =>
                 /\ ServiceNameOf[inflight[w].name] \notin DOMAIN services'
                 /\ last'.op = "Reconcile" /\ last'.res = "ok" /\ ~last'.requeue
          /\ (/\ inflight[w].pc \in {"delete.delete", "service.delete.delete"}
              /\ Write(w) /\ inflight'[w] = Idle) =>
                 last'.res = "ok" /\ last'.outcome = "deleted"]_vars

\* C12 is exercised: one call lost both races, on the secret and on the
\* service, and returned success.
C12_Witness ==
    /\ last.op = "Reconcile" /\ last.res = "ok" /\ last.outcome = "deleted"
    /\ last.absorbed = {"delete.delete", "service.delete.delete"}
    /\ NameA \notin DOMAIN secrets /\ ServiceNameOf[NameA] \notin DOMAIN services

\* C13: no Reconcile returns an error because a create of the secret or of
\* the companion service found the object already there: an AlreadyExists
\* is never the error a call hands back.
C13_AlreadyExistsNeverSurfaces ==
    ~(last.op = "Reconcile" /\ last.res = "error" /\ last.err = "AlreadyExists")

\* the service of the name exists if and only if its secret exists
ServiceIffSecret(name) ==
    ServiceNameOf[name] \in DOMAIN services <=> name \in DOMAIN secrets

\* the names whose service name is the service name of another name
Colliding == {n \in AllNames : \E m \in AllNames \ {n} : ServiceNameOf[m] = ServiceNameOf[n]}

IsServiceAnnotation(k) == k \in {AnnotationSvcHostname, AnnotationSvcProxyClass}

IsServiceLabel(k) == k \in {LabelManagedBy, LabelDeviceOS, LabelDeviceVersion} \/ IsTagLabel(k)

\* the hostname, ownership, OS, version, proxy-class and tag entries of the
\* service are the device's and the configuration's
ServiceCarriesDevice(service, d) ==
    /\ AnnotationSvcHostname \in DOMAIN service.annotations
    /\ service.annotations[AnnotationSvcHostname] = Txt(d.Hostname)
    /\ proxyClass # "" =>
           /\ AnnotationSvcProxyClass \in DOMAIN service.annotations
           /\ service.annotations[AnnotationSvcProxyClass] = Txt(proxyClass)
    /\ LabelManagedBy \in DOMAIN service.labels
    /\ service.labels[LabelManagedBy] = managedBy
    /\ LabelDeviceOS \in DOMAIN service.labels
    /\ service.labels[LabelDeviceOS] = Txt(d.OS)
    /\ LabelDeviceVersion \in DOMAIN service.labels
    /\ service.labels[LabelDeviceVersion] = Txt(d.ClientVersion)
    /\ \A i \in DOMAIN d.Tags :
           /\ TagLabel(d.Tags[i]) \in DOMAIN service.labels
           /\ service.labels[TagLabel(d.Tags[i])] = Txt("")

\* the request (name) takes the update branch: its device is listed and
\* passes the filter, and the client reads a secret under the name
TakesUpdateBranch(name) ==
    /\ MatchingDevices(name) # {}
    /\ name \in DOMAIN secrets /\ Visible(secrets[name])

\* C15: a Reconcile with companion services on that takes the update branch
\* and meets no failing call returns success; afterwards the service exists
\* and carries the device's hostname, ownership, OS, version, proxy class and
\* tags; and a service that was there before keeps every other annotation
\* and label.
C15_UpdateBranchCreatesOrMergesService ==
    [][\A n \in Names :
          (TakesUpdateBranch(n) /\ ReconcileStep(n, "none")) =>
              /\ last'.res = "ok" /\ last'.outcome = "updated"
              /\ ServiceNameOf[n] \in DOMAIN services'
              /\ \A d \in MatchingDevices(n) :
                     ServiceCarriesDevice(services'[ServiceNameOf[n]], d)
              /\ ServiceNameOf[n] \in DOMAIN services =>
                     /\ KeepsUnrelated(services[ServiceNameOf[n]].labels,
                                       services'[ServiceNameOf[n]].labels, IsServiceLabel)
                     /\ KeepsUnrelated(services[ServiceNameOf[n]].annotations,
                                       services'[ServiceNameOf[n]].annotations,
                                       IsServiceAnnotation)]_vars

\* the last step was a poll pass, at the manager's start or on a tick
IsPass(op) == op \in {"Sync", "InitialSync"}

\* the outcomes of a pass that got as far as submitting its requests
Submitting == {"completed", "completed_with_error", "panic"}

\* C16: a poll pass whose two listings succeed submits exactly the names of
\* the listed devices that pass the filter and of the secrets carrying the
\* ownership label, each of them once.
C16_PassSubmitsUnionOnce ==
    [][(IsPass(last'.op) /\ last'.outcome \in Submitting) =>
          /\ Range(last'.submitted) = deviceToSync(Cluster(secrets, services), inventory)
          /\ Len(last'.submitted) =
                 Cardinality(deviceToSync(Cluster(secrets, services), inventory))]_vars

\* what every step does to the retry budget, resets apart: the budget starts
\* at RetryBudget and stays within 0..RetryBudget, a tick-driven pass that
\* returns an error takes one from it, no other step lowers it, and the loop
\* has returned its fatal error exactly when the budget is 0, which only a
\* failed tick-driven pass on a budget of 1 brings about
BudgetStep ==
    /\ remainingRetries' \in 0..RetryBudget
    /\ (pollLoop' = "fatal") <=> (remainingRetries' = 0)
    /\ (last'.op = "Sync" /\ last'.res = "error")
          => remainingRetries' = remainingRetries - 1
    /\ remainingRetries' < remainingRetries
          => last'.op = "Sync" /\ last'.res = "error"
    /\ (pollLoop' = "fatal" /\ pollLoop # "fatal")
          => remainingRetries = 1 /\ last'.op = "Sync" /\ last'.res = "error"

C18_FailedRequestFailsPass ==
    [][(last'.op = "Sync" /\ last'.failed # <<>>) =>
          /\ last'.res = "error"
          /\ remainingRetries' = remainingRetries - 1
          /\ (remainingRetries = 1 => pollLoop' = "fatal")]_vars

IsBatch(op) == IsPass(op) \/ op = "Webhook"

\* the outcomes of a batch whose loop over the names was entered
Entered == Submitting \cup {"200", "500 Failed to reconcile devices"}

\* C19: in a poll pass whose listings succeeded and in a verified push
\* batch, every name of the batch is submitted to the engine, in the order
\* of the batch, whatever the requests before it returned; the names whose
\* request failed are among the submitted ones and are reported together.
C19_EveryNameOfBatchAttempted ==
    [][(IsBatch(last'.op) /\ last'.outcome \in Entered) =>
          /\ last'.submitted = last'.batch
          /\ Range(last'.failed) \subseteq Range(last'.submitted)
          /\ (last'.op = "Webhook" =>
                (last'.failed # <<>> <=> last'.outcome = "500 Failed to reconcile devices"))
          /\ (IsPass(last'.op) =>
                (last'.failed # <<>> <=> last'.outcome = "completed_with_error"))]_vars

\* the process runs and the pass registered at startup has not been run
Startable == cachedReads /\ ~firstPassDone /\ pollLoop = "running"

C21_UnverifiedNeverReachesEngine ==
    [][(last'.op = "Webhook" /\ ~last'.verified) =>
          /\ last'.outcome = "401 Invalid request signature"
          /\ last'.submitted = <<>> /\ last'.failed = <<>>
          /\ secrets' = secrets /\ services' = services]_vars

\* an unverified request asked for a listed device that has no secret yet
C21_Witness ==
    /\ last.op = "Webhook" /\ ~last.verified
    /\ last.outcome = "401 Invalid request signature"
    /\ last.batch = <<NameA>>
    /\ \E d \in inventory : d.Name = NameA /\ Match(deviceFilters, d)
    /\ NameA \notin DOMAIN secrets

\* C22: a verified push batch submits one request per event of type
\* nodeCreated or nodeDeleted, for the device name of the event and in the
\* order of the events; an event of another type submits nothing and is no
\* failure, so a batch without an event of these two types is answered 200
\* and changes nothing.
C22_OneRequestPerLifecycleEvent ==
    [][(last'.op = "Webhook" /\ last'.verified) =>
          /\ last'.submitted = last'.batch
          /\ Len(last'.failed) <= Len(last'.batch)
          /\ last'.batch = <<>> =>
                /\ last'.outcome = "200"
                /\ secrets' = secrets /\ services' = services]_vars

\* C23: a verified push batch is answered 500 exactly when the
\* reconciliation of one of its events returned an error, and 200
\* otherwise, a batch without events or with ignored events only included.
C23_ServerErrorIffRequestFailed ==
    [][(last'.op = "Webhook" /\ last'.verified) =>
          /\ last'.res = "error" <=> last'.failed # <<>>
          /\ last'.outcome = (IF last'.failed # <<>>
                              THEN "500 Failed to reconcile devices" ELSE "200")]_vars

\* C24: once the context shared by the loops is cancelled, every loop that
\* was started returns and Run returns.
C24_CancellationEndsRun ==
    cancelled ~> (Joined /\ run # "waiting")

\* C25: once the poll loop has returned its fatal error, no loop having
\* returned an error before it, the other loops return and Run returns the
\* error of the poll loop, with the webhook enabled or not.
C25_FatalPollEndsRun ==
    (pollLoop = "fatal" /\ firstErr = "poll") ~> (Joined /\ run = "poll")

\* the header split into its pairs and those into their parts
SplitEach(parts) == [i \in DOMAIN parts |-> Split(parts[i], "=")]

HeaderPairs(header) ==
    IF header = <<>> THEN <<>> ELSE SplitEach(Split(header, ","))

\* the places of the pairs where a pair of the key stands
PairsAt(pairs, key) ==
    {i \in DOMAIN pairs : Len(pairs[i]) = 2 /\ pairs[i][1] = key}

\* the v1 candidates of the pairs
Candidates(pairs) == {pairs[i][2] : i \in PairsAt(pairs, <<"v", "1">>)}

\* every pair is key=value
WellFormed(pairs) ==
    pairs # <<>> /\ \A i \in DOMAIN pairs : Len(pairs[i]) = 2

\* every t pair carries an integer
IntegerStamps(pairs) ==
    \A i \in PairsAt(pairs, <<"t">>) : IsInt(pairs[i][2])

\* the header is a list of key=value pairs with a timestamp that is an
\* integer and at least one v1 candidate
Signed(pairs) ==
    /\ WellFormed(pairs)
    /\ PairsAt(pairs, <<"t">>) # {}
    /\ IntegerStamps(pairs)
    /\ Candidates(pairs) # {}

\* the last place of a non-empty set of places
LastOf(places) == CHOOSE i \in places : \A j \in places : j <= i

\* the timestamp of a signed header: the one of its last t pair
Stamp(pairs) == ParseInt(pairs[LastOf(PairsAt(pairs, <<"t">>))][2])

\* the stamp lies more than the window before now
Stale(stamp, now) ==
    \/ now.unix - stamp > Window
    \/ now.unix - stamp = Window /\ now.frac

\* the signature the verification expects of the request under the pairs
Expected(pairs) == HmacHex(WebhookSecret, FormatInt(Stamp(pairs)), request.body)

\* the request has been verified and its header was signed and fresh
VerifiedFresh(pairs) ==
    /\ verdict # NoVerdict
    /\ Signed(pairs)
    /\ ~Stale(Stamp(pairs), request.now)
    /\ request.body # BodyUnreadable

\* the pairs pass every signature check
Passing(pairs) ==
    /\ Signed(pairs)
    /\ ~Stale(Stamp(pairs), request.now)
    /\ Expected(pairs) \in Candidates(pairs)

OneMatchingCandidateSuffices(pairs) ==
    VerifiedFresh(pairs) =>
        /\ verdict.err \notin SignatureErrors <=> Expected(pairs) \in Candidates(pairs)
        /\ Expected(pairs) \notin Candidates(pairs)
              => verdict.err = ErrWebhookSignatureMismatch

\* C26: for a header of key=value pairs with an integer timestamp t that is
\* not expired and with v1 candidates, the verification gets past the
\* signature check exactly when one of the candidates is the hex HMAC-SHA256
\* under the secret of decimal(t), a dot and the body; when none is, it
\* returns SignatureMismatch.
C26_OneMatchingCandidateSuffices ==
    OneMatchingCandidateSuffices(HeaderPairs(request.header))

SecondCandidateMatches(pairs) ==
    /\ VerifiedFresh(pairs)
    /\ Cardinality(Candidates(pairs)) = 2
    /\ Expected(pairs) \in Candidates(pairs)
    /\ pairs[Len(pairs)][2] = Expected(pairs)
    /\ verdict.err = "nil" /\ verdict.written

\* the second of two candidates is the matching one and the events are
\* returned
C26_Witness == SecondCandidateMatches(HeaderPairs(request.header))

FreshnessWindowIsOneSided(pairs) ==
    (verdict # NoVerdict /\ Signed(pairs)) =>
        /\ verdict.err = ErrWebhookSignatureExpired
              <=> Stale(Stamp(pairs), request.now)
        /\ (Stamp(pairs) > request.now.unix
              \/ (Stamp(pairs) = request.now.unix - Window /\ ~request.now.frac))
              => verdict.err # ErrWebhookSignatureExpired

\* C27: for a header of key=value pairs with an integer timestamp and v1
\* candidates, the verification returns SignatureExpired exactly when the
\* timestamp lies more than 300 seconds before the arrival, whatever the
\* candidates are: a timestamp 300 seconds old to the instant, or one in the
\* future, is not expired.
C27_FreshnessWindowIsOneSided ==
    FreshnessWindowIsOneSided(HeaderPairs(request.header))

ExpiredByAFraction(pairs) ==
    /\ verdict # NoVerdict /\ Signed(pairs)
    /\ Stamp(pairs) = request.now.unix - Window
    /\ Expected(pairs) \in Candidates(pairs)
    /\ request.now.frac
    /\ verdict.err = ErrWebhookSignatureExpired

\* a timestamp 300 seconds and a fraction old is expired although its
\* signature is the expected one, and the same timestamp passes at the whole
\* second
C27_Witness == ExpiredByAFraction(HeaderPairs(request.header))

MissingPairIsNotSigned(pairs) ==
    (/\ verdict # NoVerdict
     /\ \/ pairs = <<>>
        \/ PairsAt(pairs, <<"t">>) = {}
        \/ PairsAt(pairs, <<"v", "1">>) = {}
     /\ IntegerStamps(pairs))
        => verdict.err = ErrWebhookNotSigned

\* C28: the verification returns NotSigned whenever the header is empty,
\* has no t pair or has no v1 pair, a header with v1 candidates and no t
\* pair included; the headers whose t pair is no integer are left to C29.
C28_MissingPairIsNotSigned ==
    MissingPairIsNotSigned(HeaderPairs(request.header))

UnparseableTimestampIsInvalid(pairs) ==
    (/\ verdict # NoVerdict
     /\ WellFormed(pairs)
     /\ ~IntegerStamps(pairs))
        => verdict.err = ErrWebhookInvalidSignature

\* C29: for a header of key=value pairs, the verification returns
\* InvalidSignature whenever a t pair carries a value that is not a base-10
\* integer, with or without v1 candidates, matching or not, and whatever the
\* body is.
C29_UnparseableTimestampIsInvalid ==
    UnparseableTimestampIsInvalid(HeaderPairs(request.header))

\* an integer timestamp and the expected signature of it stand before the
\* t pair that is no integer
C29_Witness ==
    /\ verdict.err = ErrWebhookInvalidSignature
    /\ HeaderPairs(request.header) =
          << <<<<"t">>, <<"7", "0", "0">>>>,
             <<<<"v", "1">>, HmacHex(WebhookSecret, <<"7", "0", "0">>, request.body)>>,
             <<<<"t">>, <<"x">>>> >>

DecodesOnlyAfterVerification(passing) ==
    verdict # NoVerdict =>
        /\ verdict.written => (passing /\ verdict.err = "nil")
        /\ (request.body = BodyMalformed /\ ~passing)
              => (verdict.err \in SignatureErrors /\ ~verdict.written)
        /\ (request.body = BodyMalformed /\ passing)
              => (verdict.err \notin SignatureErrors \cup {"nil"} /\ ~verdict.written)

\* C30: the body is decoded only once the signature is verified: a request
\* that fails a signature check returns one of the four signature errors and
\* leaves the events unwritten although its body is no JSON either, events
\* are written only for a request that passed every check, and a body that
\* is no JSON under a passing header returns an error that is none of the
\* four.
C30_DecodesOnlyAfterVerification ==
    DecodesOnlyAfterVerification(Passing(HeaderPairs(request.header)))

\* a body that is no JSON arrived under a header that passes
C30_Witness ==
    /\ verdict # NoVerdict
    /\ request.body = BodyMalformed /\ Passing(HeaderPairs(request.header))
    /\ verdict.err = "json: invalid character"

\* C31: a filter built from an empty pattern list is built without error
\* and matches every device handed to it, a device without tags included.
C31_EmptyListMatchesEveryDevice ==
    (deviceFilters = <<>> /\ built # Unbuilt) =>
        /\ built.err = <<>> /\ built.filter # <<>>
        /\ probe # Unprobed => probe.result = "true"

\* a device without tags was matched by the filter built from no pattern
C31_Witness ==
    /\ deviceFilters = <<>> /\ built # Unbuilt
    /\ probe # Unprobed /\ probe.tags = <<>> /\ probe.result = "true"

\* the places of the patterns regexp.Compile refuses
Refused(patterns) == {i \in DOMAIN patterns : Compile(patterns[i]).err # "nil"}

\* C32: the construction fails exactly when some pattern of the list does
\* not compile, whatever its place and whatever the other patterns are: it
\* then returns no filter and an error that wraps the parse error of a
\* refused pattern; a filter is returned only when every pattern compiles.
C32_ConstructionFailsFast ==
    built # Unbuilt =>
        /\ built.err # <<>> <=> Refused(deviceFilters) # {}
        /\ built.err # <<>> =>
              /\ built.filter = <<>>
              /\ \E i \in Refused(deviceFilters) :
                    built.err = InvalidTagPattern(Compile(deviceFilters[i]))
        /\ built.filter # <<>> => Refused(deviceFilters) = {}
        /\ built.err = <<>> => built.filter # <<>>

\* the pattern that does not compile stands first, before one that does
C32_Witness ==
    /\ deviceFilters = <<PatternUnclosed, PatternX>>
    /\ built.filter = <<>>
    /\ built.err = <<"invalid tag pattern", ErrMissingBracket, PatternUnclosed>>

\* the pattern, its ^ and $ trimmed and applied again, matches the whole of
\* the text
FullMatch(pattern, text) ==
    Len(text) + 1 \in Ends(Compile(Trimmed(pattern)).prog, text, 1)

\* one single tag of the list, without its prefix, is matched in full by
\* one of the patterns
SomeTagMatched(patterns, tags) ==
    \E i \in DOMAIN tags : \E p \in Range(patterns) :
        FullMatch(p, TrimPrefix(tags[i], TagColon))

\* C33: for a filter built from a non-empty list of patterns that compile,
\* Match answers true when a single tag of the device, without its tag:
\* prefix, is matched in full by one of the patterns, and false otherwise:
\* never for a match that spans several tags, never for a device without
\* tags.
C33_MatchIsOneWholeTag ==
    (/\ built # Unbuilt /\ deviceFilters # <<>> /\ Refused(deviceFilters) = {}
     /\ probe # Unprobed)
        => probe.result = (IF SomeTagMatched(deviceFilters, probe.tags)
                           THEN "true" ELSE "false")

\* the characters a DNS-1035 name is made of
NameAlphabet == Range(LowerCase) \cup Digits \cup {"-"}

\* the name is a DNS-1035 name: not empty, within the limit, of the
\* alphabet, no hyphen at its ends and no two hyphens in a row
IsDNS1035(name) ==
    /\ name # <<>>
    /\ Len(name) <= MaxNameLen
    /\ \A i \in DOMAIN name : name[i] \in NameAlphabet
    /\ name[1] # "-" /\ name[Len(name)] # "-"
    /\ \A i \in 1..(Len(name) - 1) : ~(name[i] = "-" /\ name[i + 1] = "-")

\* the name holds no letter and no digit
NothingToKeep(name) ==
    \A i \in DOMAIN name : name[i] \notin Range(LowerCase) \cup Range(UpperCase) \cup Digits

\* C34: whatever name it is given, the normalizer returns a name that is
\* not empty, at most 63 characters long, made of a-z, 0-9 and "-" only,
\* without "-" at its ends and without two "-" in a row; for a name that
\* holds no letter and no digit it returns "tailscale-device".
C34_NormalizedNameIsDNS1035 ==
    normal # <<>> =>
        /\ IsDNS1035(normal[1])
        /\ NothingToKeep(input) => normal[1] = FallbackName
        /\ normal[1] = FallbackName => NothingToKeep(input)

\* a name longer than the limit whose 63rd character becomes a hyphen: the
\* result is one character short of the limit
C34_Witness ==
    /\ normal # <<>>
    /\ Len(input) > MaxNameLen
    /\ input[MaxNameLen] \in {"-", "."}
    /\ Len(normal[1]) = MaxNameLen - 1

\* C35: the normalizer is idempotent: normalizing its result returns that
\* result, for the names that are cut at the limit and for those that
\* reduce to the fallback as for the others.
C35_NormalizerIsIdempotent ==
    Len(normal) = 2 => normal[2] = normal[1]

\* a name over the limit was cut at a hyphen, and its result was returned
\* unchanged by the second call
C35_Witness ==
    /\ Len(normal) = 2
    /\ Len(input) > MaxNameLen /\ input[MaxNameLen] = "-"
    /\ normal[1] = LongName /\ normal[2] = LongName

\* a name without letter or digit gave the fallback, twice
C35_WitnessFallback ==
    /\ Len(normal) = 2
    /\ input # <<>> /\ NothingToKeep(input)
    /\ normal[1] = FallbackName /\ normal[2] = FallbackName

\* the step is a pass, run at a tick or at startup, that returned an error
FailedPass == last'.op \in {"Sync", "InitialSync"} /\ last'.res = "error"

\* C36: the poll loop returns its fatal error only on a failed tick-driven
\* pass that finds the retry budget at 1, and no other failed pass, the one
\* run at startup included, stops the poll loop, the manager or the webhook
\* loop or cancels the context they share.
C36_OneFailedPassNeverStops ==
    [][/\ (pollLoop' = "fatal" /\ pollLoop # "fatal")
              => (FailedPass /\ last'.op = "Sync" /\ remainingRetries = 1)
       /\ (FailedPass /\ ~(last'.op = "Sync" /\ remainingRetries = 1))
              => /\ pollLoop' = pollLoop /\ managerLoop' = managerLoop
                 /\ webhookLoop' = webhookLoop
                 /\ cancelled' = cancelled /\ firstErr' = firstErr]_vars

\* the object stored under the key is after the step what it was before
Untouched(objects, objectsAfter, key) ==
    /\ key \in DOMAIN objects <=> key \in DOMAIN objectsAfter
    /\ key \in DOMAIN objects => objectsAfter[key] = objects[key]

\* the object stored under the key is neither deleted nor overwritten by
\* the step
Kept(objects, objectsAfter, key) ==
    key \in DOMAIN objects =>
        key \in DOMAIN objectsAfter /\ objectsAfter[key] = objects[key]

\* the names, other than the given one, of the listed devices that pass the
\* filter
OthersListed(name) ==
    {d.Name : d \in {x \in inventory : x.Name # name /\ Match(deviceFilters, x)}}

\* a Reconcile of the name leaves every secret but the name's and every
\* service but the name's as they were
TouchesOwnKeysOnly(name) ==
    /\ \A n \in (DOMAIN secrets \cup DOMAIN secrets') \ {name} :
          Untouched(secrets, secrets', n)
    /\ \A sn \in (DOMAIN services \cup DOMAIN services') \ {toDNS1035Name(name)} :
          Untouched(services, services', sn)

\* a Reconcile of the name leaves the secret and the service of every other
\* listed device as they were
SparesOtherDevices(name) ==
    \A n \in OthersListed(name) :
        /\ Kept(secrets, secrets', n)
        /\ Kept(services, services', toDNS1035Name(n))

\* C37: Reconcile of a name creates, updates or deletes only the secret
\* under the name and the service under the normalized name, and it never
\* deletes or overwrites the secret or the service of another device that
\* is listed and passes the filter, two names with one normalized name
\* included.
C37_ReconcileTouchesOnlyItsDevice ==
    [][last'.op = "Reconcile" =>
          TouchesOwnKeysOnly(last'.name) /\ SparesOtherDevices(last'.name)]_vars

\* the part of C37 that is about the keys
C37_TouchesOwnKeysOnly ==
    [][last'.op = "Reconcile" => TouchesOwnKeysOnly(last'.name)]_vars

\* the step was made by the controller: a workqueue request, a pass or a
\* push request
ControllerStep == last'.op \in {"Reconcile", "Sync", "InitialSync", "Webhook"}

C38_WitnessFiltered ==
    /\ last.op = "Sync" /\ last.res = "ok"
    /\ \E d \in inventory : d.Name = NameA /\ ~Match(deviceFilters, d)
    /\ NameA \in DOMAIN secrets /\ ~Owned(secrets[NameA])

\* the device listed under the name, which passes the filter and has an
\* address, and a secret under the name that the client can read
Updatable(name) ==
    /\ \E d \in inventory : d.Name = name /\ Match(deviceFilters, d) /\ d.Addresses # <<>>
    /\ name \in DOMAIN secrets /\ Visible(secrets[name])

\* the object has no annotations or no labels at all
LacksAMap(obj) == IsNilMap(obj.annotations) \/ IsNilMap(obj.labels)

\* C39: a Reconcile that updates a secret without annotations or without
\* labels does not crash, and when it returns without error the secret
\* carries the device's annotations and the ownership label; likewise for a
\* service without annotations or labels.
C39_UpdateFillsAbsentMaps ==
    [][(/\ last'.op = "Reconcile"
        /\ Updatable(last'.name)
        /\ \/ LacksAMap(secrets[last'.name])
           \/ /\ createService
              /\ toDNS1035Name(last'.name) \in DOMAIN services
              /\ Visible(services[toDNS1035Name(last'.name)])
              /\ LacksAMap(services[toDNS1035Name(last'.name)]))
          => /\ last'.res # "panic"
             /\ last'.res = "ok" =>
                   /\ AnnotationDeviceID \in DOMAIN secrets'[last'.name].annotations
                   /\ Owned(secrets'[last'.name])]_vars

\* the name a batch holds for an event that carries no data section
Nameless == NoData.DeviceName

\* C40: a verified push batch with a nodeCreated or nodeDeleted event that
\* carries no data section is handled without a crash: every event of the
\* batch that names a device is submitted to the engine, and the answer is
\* 500 when one of the requests failed and 200 otherwise.
C40_EventWithoutDataDoesNotAbort ==
    [][(/\ last'.op = "Webhook" /\ last'.verified
        /\ Nameless \in Range(last'.batch))
          => /\ last'.res # "panic"
             /\ Range(last'.batch) \ {Nameless} \subseteq Range(last'.submitted)
             /\ last'.outcome \in {"200", "500 Failed to reconcile devices"}
             /\ last'.outcome = "500 Failed to reconcile devices"
                   => last'.failed # <<>>]_vars

====
